---- MODULE Spec2Model ----
(***************************************************************************)
(* The transaction server of MnemonicPhrase (scripts/tx-server.js): the    *)
(* HTTP handler, handleSendBatch and handleReclaimBatch, as processes that *)
(* suspend at every awaited RPC call or timer.                             *)
(*                                                                         *)
(* Amounts of wei are counted in units of 10^7 wei, so that the 0.05 gwei  *)
(* fallback fee is 5 and every product stays inside TLC's integers.        *)
(***************************************************************************)
EXTENDS Integers, Sequences, FiniteSets, TLC

\* ------------------------------------------------------------------ bounds
\* MaxItems: the longest recipient list and the longest entry list.
\* MaxFaults: the calls the network may fail in one batch.
MaxItems == 2
MaxFaults == 2
MaxSeeds == 2
MaxCalls == 2
MaxTests == 2
MaxBatch == 2

\* The requests the server may be handling at a time.
Runs == {1, 2}

\* --------------------------------------------------------- program constants
FALLBACK_PRIORITY_FEE_GWEI == 5
GAS_LIMIT_FALLBACK == 60000
MIN_BACKOFF_MS == 2000
FUNDING_ADDRESS == "0xFUND"

\* Number("abc") is NaN; the model's delays are naturals and -1 stands for NaN.
NaN == -1

\* --------------------------------------------------------------- RPC errors
\* An error is its code and the phrases of its message the two classifiers
\* look for.
Phrases == {"nonce too low", "already been used", "in-flight transaction limit"}

Errors ==
    { [code |-> "NONCE_EXPIRED", message |-> {}],
      [code |-> "UNKNOWN_ERROR", message |-> {"nonce too low"}],
      [code |-> "UNKNOWN_ERROR", message |-> {"in-flight transaction limit"}],
      [code |-> "NETWORK_ERROR", message |-> {}] }

NoError == [code |-> "none", message |-> {}]

isNonceError(error) ==
    \/ error.code = "NONCE_EXPIRED"
    \/ "nonce too low" \in error.message
    \/ "already been used" \in error.message

isInFlightLimitError(error) == "in-flight transaction limit" \in error.message

\* ------------------------------------------------------------------ helpers
\* addGasBuffer with a buffer of a quarter.
addGasBufferQuarter(gasLimit) ==
    IF gasLimit <= 0 THEN gasLimit ELSE gasLimit + (gasLimit \div 4)

addGasBuffer(gasLimit) ==
    IF gasLimit <= 0 THEN gasLimit ELSE gasLimit + (gasLimit \div 5)

\* Math.max: NaN if an argument is NaN.
MathMax(a, b) == IF a = NaN \/ b = NaN THEN NaN ELSE IF a > b THEN a ELSE b

\* setTimeout(resolve, ms): a delay that is NaN or below 1 is set to 1 ms.
delay(ms) == IF ms = NaN \/ ms < 1 THEN 1 ELSE ms

\* payload.delayMs as JSON sends it, and Number(payload.delayMs || 0).
DelayInputs == {"absent", "3000", "abc"}

NumberOrZero(d) ==
    CASE d = "absent" -> 0
      [] d = "3000" -> 3000
      [] OTHER -> NaN

\* ethers.parseEther on the model's amount strings, in units of 10^7 wei;
\* -1 stands for the exception it throws on a string that is no decimal number.
AmountInputs == {"", "abc", "0.0001"}

parseEther(amountEth) ==
    CASE amountEth = "0.0001" -> 10000000
      [] amountEth = "0" -> 0
      [] amountEth = "0.00001" -> 1000000
      [] OTHER -> -1

\* resolveFundingWallet: the wallet's address, or "throw".
SecretInputs == {"", "   ", "0xKEY", "not a key", "twelve valid words", "twelve bad words"}

wordCount(secret) ==
    IF secret \in {"twelve valid words", "twelve bad words"} THEN 12
    ELSE IF secret = "not a key" THEN 3
    ELSE IF secret \in {"", "   "} THEN 0 ELSE 1

resolveFundingWallet(secret) ==
    IF secret \in {"", "   "} THEN "throw"
    ELSE IF wordCount(secret) >= 12
         THEN (IF secret = "twelve valid words" THEN FUNDING_ADDRESS ELSE "throw")
         ELSE (IF secret = "0xKEY" THEN FUNDING_ADDRESS ELSE "throw")

\* A recipient entry: an address string, a string that is no address, or a
\* JSON value that is no string (null, a number).
RecipientKinds == {"address", "text", "null"}

IsString(to) == to # "null"

RECURSIVE SeqsUpTo(_, _)
SeqsUpTo(S, n) ==
    IF n = 0 THEN {<<>>}
    ELSE LET shorter == SeqsUpTo(S, n - 1)
         IN shorter \cup { Append(q, x) : q \in {p \in shorter : Len(p) = n - 1}, x \in S }

\* ------------------------------------------------------------------- state
VARIABLES
    req,    \* req[r]: the request the server has received for r and not yet handled
    run,    \* run[r]: the locals and position of the handler invocation r
    res,    \* res[r]: the HTTP response written for r
    net,    \* net[r]: what r has asked of the network so far (observation only)
    gui,    \* the encryption panel of the browser application and its envelope
    hd,     \* a mnemonic generation and the address derivations made from it
    batch,  \* the BatchProcessor component: its state, its refs, its processBatch
    snd,    \* the three batch senders, given the same batch and the same network
    gbm,    \* the GasBatchManager component: its CSV items and its handleDecrypt
    panel   \* the EncryptionPanel component: its mnemonics and its handleEncrypt

vars == <<req, run, res, net, gui, hd, batch, snd, gbm, panel>>

NoRequest == [url |-> "none"]
NoCall ==
    [op |-> "none", to |-> 0, value |-> 0, nonce |-> 0, gasLimit |-> 0,
     maxFeePerGas |-> 0, maxPriorityFeePerGas |-> 0, hash |-> 0, ms |-> 0]

Call(op) == [NoCall EXCEPT !.op = op]

IdleRun ==
    [ pc |-> "idle", handler |-> "",
      recipients |-> <<>>, amountEth |-> "", delayMs |-> 0, waitConfirm |-> FALSE,
      wallet |-> "", maxFeePerGas |-> 0, maxPriorityFeePerGas |-> 0, value |-> 0,
      logs |-> <<>>, nextNonce |-> 0, lastSubmittedHash |-> 0,
      i |-> 0, gasLimit |-> 0,
      entries |-> <<>>, reserveEth |-> "", reserveWei |-> 0,
      nonce |-> 0, balance |-> 0, estimatedGasLimit |-> 0,
      call |-> NoCall, thrown |-> "" ]

NoResponse == [status |-> 0, logs |-> <<>>]

IdleNet ==
    [ rpc |-> 0,            \* network calls issued
      faults |-> 0,         \* calls the network has failed
      looping |-> FALSE,    \* the handler has reached its loop
      startNonce |-> 0,     \* what the batch's first getTransactionCount resolved to
      txs |-> <<>>,         \* the sendTransaction calls, in order of issue
      caught |-> NoError,   \* the error the current item's first try block threw
      waited |-> "no",      \* what the current item's catch has waited for
      missing |-> FALSE,    \* the payload lacked a required field
      malformed |-> {},     \* the payload's fields that do not parse
      quote |-> [item |-> 0, balance |-> 0, reserve |-> 0, cost |-> 0],
                            \* the balance, reserve and gas cost the step just
                            \* taken compared for a reclaim entry (item 0: none)
      feeData |-> [maxFeePerGas |-> 0, gasPrice |-> 0, maxPriorityFeePerGas |-> 0,
                   resolved |-> FALSE] ]
                            \* what getFeeData resolved to

\* JSON null, for a fee field the node does not report.
null == -1

Falsy(x) == x = null \/ x = 0

\* a || b
OrElse(a, b) == IF Falsy(a) THEN b ELSE a

\* What provider.getFeeData() may resolve to (units of 10^7 wei).
FeeDatas ==
    { [maxFeePerGas |-> 200, gasPrice |-> 100, maxPriorityFeePerGas |-> 10],
      [maxFeePerGas |-> 0, gasPrice |-> 100, maxPriorityFeePerGas |-> 0],
      [maxFeePerGas |-> null, gasPrice |-> null, maxPriorityFeePerGas |-> null] }

getFeeOptions(feeData) ==
    [ maxFeePerGas |-> OrElse(feeData.maxFeePerGas,
                              OrElse(feeData.gasPrice, FALLBACK_PRIORITY_FEE_GWEI)),
      maxPriorityFeePerGas |-> OrElse(feeData.maxPriorityFeePerGas,
                                      FALLBACK_PRIORITY_FEE_GWEI) ]

\* What provider.getTransactionCount(address, 'pending') may resolve to.
PendingNonces == {0, 2}

\* What provider.estimateGas may resolve to.
Estimates == {21000}

\* tx.hash of the transaction submitted for item i (0-based) at the given
\* attempt (1: first submission, 2: retry); 0 is no hash.
Hash(i, attempt) == 2 * i + attempt

\* --------------------------------------------------------- handleSendBatch
\* logs.push: a line is its kind (submitted, confirmed, waiting, retried,
\* failed; for a reclaim also nokey, skipped), the item it labels (1-based) and
\* the transaction hash it prints (0 if none).
Push(s, kind, hash) ==
    [s EXCEPT !.logs = Append(@, [kind |-> kind, item |-> s.i + 1, hash |-> hash])]

\* An exception that leaves the handler.
Throw(s, what) == [s EXCEPT !.pc = "thrown", !.call = NoCall, !.thrown = what]

Await(s, pc, call) == [s EXCEPT !.pc = pc, !.call = call]

\* return { logs }
Return(s) == [s EXCEPT !.pc = "done", !.call = NoCall]

\* SendBatchEntry without its check of rpcUrl.
SendBatchEntryNoUrlCheck(s, payload) ==
    LET recipients == IF payload.recipients.isArray THEN payload.recipients.items ELSE <<>>
        wallet == resolveFundingWallet(payload.fundingSecret)
    IN  IF Len(recipients) = 0 THEN Throw(s, "recipients is required")
        ELSE IF payload.fundingSecret = "" THEN Throw(s, "fundingSecret is required")
        ELSE IF payload.amountEth = "" THEN Throw(s, "amountEth is required")
        ELSE IF wallet = "throw" THEN Throw(s, "invalid funding secret")
        ELSE Await([s EXCEPT !.handler = "send",
                             !.recipients = recipients,
                             !.amountEth = payload.amountEth,
                             !.delayMs = NumberOrZero(payload.delayMs),
                             !.waitConfirm = payload.waitConfirm,
                             !.wallet = wallet],
                   "getFeeData", Call("getFeeData"))

\* Lines 116-139: the payload's fields, the pre-flight checks, the provider,
\* the wallet, and the call of getFeeOptions.
SendBatchEntry(s, payload) ==
    LET recipients == IF payload.recipients.isArray THEN payload.recipients.items ELSE <<>>
        wallet == resolveFundingWallet(payload.fundingSecret)
    IN  IF Len(recipients) = 0 THEN Throw(s, "recipients is required")
        ELSE IF payload.rpcUrl = "" THEN Throw(s, "rpcUrl is required")
        ELSE IF payload.fundingSecret = "" THEN Throw(s, "fundingSecret is required")
        ELSE IF payload.amountEth = "" THEN Throw(s, "amountEth is required")
        ELSE IF wallet = "throw" THEN Throw(s, "invalid funding secret")
        ELSE Await([s EXCEPT !.handler = "send",
                             !.recipients = recipients,
                             !.amountEth = payload.amountEth,
                             !.delayMs = NumberOrZero(payload.delayMs),
                             !.waitConfirm = payload.waitConfirm,
                             !.wallet = wallet],
                   "getFeeData", Call("getFeeData"))

\* Lines 139-142: the fee options, the value, the call of getTransactionCount.
SendBatchFees(s, feeData) ==
    LET fee == getFeeOptions(feeData)
        value == parseEther(s.amountEth)
    IN  IF value < 0 THEN Throw(s, "invalid amountEth")
        ELSE Await([s EXCEPT !.maxFeePerGas = fee.maxFeePerGas,
                             !.maxPriorityFeePerGas = fee.maxPriorityFeePerGas,
                             !.value = value,
                             !.amountEth = ""],
                   "getTransactionCount", Call("getTransactionCount"))

\* Lines 145-152: the loop test, the label (to.slice) and the gas estimate.
LoopHead(s) ==
    IF s.i < Len(s.recipients)
    THEN IF ~IsString(s.recipients[s.i + 1])
         THEN Throw(s, "to.slice is not a function")
         ELSE Await(s, "estimateGas", [Call("estimateGas") EXCEPT !.to = s.i + 1])
    ELSE Return(s)

NextRecipient(s) == LoopHead([s EXCEPT !.i = @ + 1, !.gasLimit = 0])

\* AfterRecipient without the spacing.
AfterRecipientNoDelay(s) == NextRecipient(s)

\* Lines 202-204: the spacing after every recipient but the last.
AfterRecipient(s) ==
    IF s.i < Len(s.recipients) - 1 /\ s.delayMs # NaN /\ s.delayMs > 0
    THEN Await(s, "delay", [Call("delay") EXCEPT !.ms = delay(s.delayMs)])
    ELSE NextRecipient(s)

\* wallet.sendTransaction({to, value, gasLimit, ...feeOptions, nonce: nextNonce})
Submit(s, pc) ==
    Await(s, pc, [Call("sendTransaction") EXCEPT !.to = s.i + 1,
                                                 !.value = s.value,
                                                 !.nonce = s.nextNonce,
                                                 !.gasLimit = s.gasLimit,
                                                 !.maxFeePerGas = s.maxFeePerGas,
                                                 !.maxPriorityFeePerGas =
                                                     s.maxPriorityFeePerGas])

\* Submitted without nextNonce += 1.
SubmittedNoIncrement(s, kind, attempt, waitPc) ==
    LET hash == Hash(s.i, attempt)
        s1 == Push([s EXCEPT !.lastSubmittedHash = hash], kind, hash)
    IN  IF s.waitConfirm
        THEN Await(s1, waitPc, [Call("wait") EXCEPT !.hash = hash])
        ELSE AfterRecipient(s1)

\* Submitted that does not await the confirmation.
SubmittedNoWait(s, kind, attempt, waitPc) ==
    LET hash == Hash(s.i, attempt)
    IN  AfterRecipient(Push([s EXCEPT !.nextNonce = @ + 1, !.lastSubmittedHash = hash],
                            kind, hash))

\* Lines 161-167 and 187-193: after a submission that returned a transaction.
Submitted(s, kind, attempt, waitPc) ==
    LET hash == Hash(s.i, attempt)
        s1 == Push([s EXCEPT !.nextNonce = @ + 1, !.lastSubmittedHash = hash], kind, hash)
    IN  IF s.waitConfirm
        THEN Await(s1, waitPc, [Call("wait") EXCEPT !.hash = hash])
        ELSE AfterRecipient(s1)

\* Refetched that submits the retry without taking the re-fetched nonce.
RefetchedKeepsNonce(s, n) == Submit(s, "retrySendTransaction")

\* Lines 142-145: the pending nonce, no hash yet, and the first recipient.
SendBatchNonce(s, n) ==
    LoopHead([s EXCEPT !.nextNonce = n, !.lastSubmittedHash = 0, !.i = 0])

\* Refetched that counts the failed attempt on top of the re-fetched nonce.
RefetchedCounts(s, n) == Submit([s EXCEPT !.nextNonce = n + 1], "retrySendTransaction")

\* Lines 179-186: the re-fetched nonce and the retry's submission.
Refetched(s, n) == Submit([s EXCEPT !.nextNonce = n], "retrySendTransaction")

\* Line 179: the call that re-fetches the pending nonce.
Refetch(s) == Await(s, "retryGetTransactionCount", Call("getTransactionCount"))

\* Catch that logs every error and retries none.
CatchNoRetry(s, error) == AfterRecipient(Push(s, "failed", 0))

\* Catch that retries after an in-flight-limit error only.
CatchInFlightOnly(s, error) ==
    IF isInFlightLimitError(error)
    THEN LET s1 == Push(s, "waiting", 0)
         IN  IF s.lastSubmittedHash # 0
             THEN Await(s1, "waitForTransaction",
                        [Call("waitForTransaction") EXCEPT !.hash = s.lastSubmittedHash])
             ELSE Await(s1, "backoff",
                        [Call("delay") EXCEPT
                            !.ms = delay(MathMax(s.delayMs, MIN_BACKOFF_MS))])
    ELSE AfterRecipient(Push(s, "failed", 0))

\* Lines 168-200: the catch of the first try block, up to its first await.
Catch(s, error) ==
    IF isNonceError(error) \/ isInFlightLimitError(error)
    THEN IF isInFlightLimitError(error)
         THEN LET s1 == Push(s, "waiting", 0)
              IN  IF s.lastSubmittedHash # 0
                  THEN Await(s1, "waitForTransaction",
                             [Call("waitForTransaction") EXCEPT !.hash = s.lastSubmittedHash])
                  ELSE Await(s1, "backoff",
                             [Call("delay") EXCEPT
                                 !.ms = delay(MathMax(s.delayMs, MIN_BACKOFF_MS))])
         ELSE Refetch(s)
    ELSE AfterRecipient(Push(s, "failed", 0))

\* CatchRetry without its log line.
CatchRetrySilent(s) == AfterRecipient(s)

\* CatchRetry that re-fetches the nonce and submits once more.
CatchRetryAgain(s) == Refetch(s)

\* Lines 194-196: the catch of the retry's try block.
CatchRetry(s) == AfterRecipient(Push(s, "failed", 0))

\* ------------------------------------------------------ handleReclaimBatch
\* An entry of payload.entries: JSON null, an entry without privateKey, an
\* entry whose privateKey is no key, an entry with a key.
EntryKinds == {"null", "nokey", "badkey", "key"}

\* payload.reserveEth as sent, and payload.reserveEth || '0'.
ReserveInputs == {"absent", "abc", "0.00001"}

ReserveOrZero(x) == IF x = "absent" THEN "0" ELSE x

\* What provider.getBalance may resolve to (units of 10^7 wei).
Balances == {0, 5040000, 6000000}

\* What provider.estimateGas may resolve to for a reclaim transfer.
ReclaimEstimates == {21000, 30003}

\* Lines 211-229: the payload's fields, the pre-flight checks, the provider and
\* the call of getFeeOptions.
ReclaimBatchEntry(s, payload) ==
    LET entries == IF payload.entries.isArray THEN payload.entries.items ELSE <<>>
    IN  IF Len(entries) = 0 THEN Throw(s, "entries is required")
        ELSE IF payload.rpcUrl = "" THEN Throw(s, "rpcUrl is required")
        ELSE IF payload.reclaimAddress = "" THEN Throw(s, "reclaimAddress is required")
        ELSE Await([s EXCEPT !.handler = "reclaim",
                             !.entries = entries,
                             !.reserveEth = ReserveOrZero(payload.reserveEth),
                             !.delayMs = NumberOrZero(payload.delayMs),
                             !.waitConfirm = payload.waitConfirm],
                   "reclaimGetFeeData", Call("getFeeData"))

RECURSIVE ReclaimLoopHead(_)

\* `continue`, and the end of the loop body: i += 1 and the loop test.
ReclaimNext(s) ==
    ReclaimLoopHead([s EXCEPT !.i = @ + 1, !.nonce = 0, !.balance = 0,
                              !.estimatedGasLimit = 0, !.gasLimit = 0])

\* Lines 295-297: the spacing after every entry but the last.
ReclaimAfter(s) ==
    IF s.i < Len(s.entries) - 1 /\ s.delayMs # NaN /\ s.delayMs > 0
    THEN Await(s, "reclaimDelay", [Call("delay") EXCEPT !.ms = delay(s.delayMs)])
    ELSE ReclaimNext(s)

\* Lines 291-293: the catch of the entry's try block.
ReclaimCatch(s) == ReclaimAfter(Push(s, "failed", 0))

\* ReclaimLoopHead treating an entry without key as a failed entry.
ReclaimLoopHeadNoKeyFails(s) ==
    IF s.i < Len(s.entries)
    THEN LET entry == s.entries[s.i + 1]
         IN  IF entry = "null" THEN Throw(s, "cannot read privateKey of null")
             ELSE IF entry \in {"nokey", "badkey"} THEN ReclaimCatch(s)
             ELSE Await(s, "reclaimGetTransactionCount", Call("getTransactionCount"))
    ELSE Return(s)

\* Lines 233-247: the loop test, the entry's fields, the skip of an entry
\* without key, the wallet, and the call of getTransactionCount.
ReclaimLoopHead(s) ==
    IF s.i < Len(s.entries)
    THEN LET entry == s.entries[s.i + 1]
         IN  IF entry = "null" THEN Throw(s, "cannot read privateKey of null")
             ELSE IF entry = "nokey" THEN ReclaimNext(Push(s, "nokey", 0))
             ELSE IF entry = "badkey" THEN ReclaimCatch(s)
             ELSE Await(s, "reclaimGetTransactionCount", Call("getTransactionCount"))
    ELSE Return(s)

\* Lines 229-233: the fee options, the reserve, and the first entry.
ReclaimBatchFees(s, feeData) ==
    LET fee == getFeeOptions(feeData)
        reserveWei == parseEther(s.reserveEth)
    IN  IF reserveWei < 0 THEN Throw(s, "invalid reserveEth")
        ELSE ReclaimLoopHead([s EXCEPT !.maxFeePerGas = fee.maxFeePerGas,
                                       !.maxPriorityFeePerGas = fee.maxPriorityFeePerGas,
                                       !.reserveWei = reserveWei,
                                       !.reserveEth = "",
                                       !.i = 0])

\* ReclaimProbed skipping only a negative sendable amount.
ReclaimProbedSkipsNegative(s, estimatedGasLimit) ==
    LET gasCost == estimatedGasLimit * s.maxFeePerGas
        sendable == s.balance - s.reserveWei - gasCost
    IN  IF sendable < 0 THEN ReclaimNext(Push(s, "skipped", 0))
        ELSE Await([s EXCEPT !.estimatedGasLimit = estimatedGasLimit],
                   "reclaimFinalEstimateGas",
                   [Call("estimateGas") EXCEPT !.to = s.i + 1, !.value = sendable])

\* Lines 254-270: the first sendable amount, its skip, and the second estimate.
ReclaimProbed(s, estimatedGasLimit) ==
    LET gasCost == estimatedGasLimit * s.maxFeePerGas
        sendable == s.balance - s.reserveWei - gasCost
    IN  IF sendable <= 0 THEN ReclaimNext(Push(s, "skipped", 0))
        ELSE Await([s EXCEPT !.estimatedGasLimit = estimatedGasLimit],
                   "reclaimFinalEstimateGas",
                   [Call("estimateGas") EXCEPT !.to = s.i + 1, !.value = sendable])

\* ReclaimEstimated that submits the amount computed from the probe's gas cost.
ReclaimEstimatedProbeAmount(s, finalGasLimit) ==
    LET finalGasCost == finalGasLimit * s.maxFeePerGas
        finalSendable == s.balance - s.reserveWei - finalGasCost
        sendable == s.balance - s.reserveWei - s.estimatedGasLimit * s.maxFeePerGas
    IN  IF finalSendable <= 0 THEN ReclaimNext(Push(s, "skipped", 0))
        ELSE Await([s EXCEPT !.gasLimit = finalGasLimit],
                   "reclaimSendTransaction",
                   [Call("sendTransaction") EXCEPT !.to = s.i + 1,
                                                   !.value = sendable,
                                                   !.gasLimit = finalGasLimit,
                                                   !.maxFeePerGas = s.maxFeePerGas,
                                                   !.maxPriorityFeePerGas =
                                                       s.maxPriorityFeePerGas,
                                                   !.nonce = s.nonce])

\* Lines 271-285: the final sendable amount, its skip, and the submission.
ReclaimEstimated(s, finalGasLimit) ==
    LET finalGasCost == finalGasLimit * s.maxFeePerGas
        finalSendable == s.balance - s.reserveWei - finalGasCost
    IN  IF finalSendable <= 0 THEN ReclaimNext(Push(s, "skipped", 0))
        ELSE Await([s EXCEPT !.gasLimit = finalGasLimit],
                   "reclaimSendTransaction",
                   [Call("sendTransaction") EXCEPT !.to = s.i + 1,
                                                   !.value = finalSendable,
                                                   !.gasLimit = finalGasLimit,
                                                   !.maxFeePerGas = s.maxFeePerGas,
                                                   !.maxPriorityFeePerGas =
                                                       s.maxPriorityFeePerGas,
                                                   !.nonce = s.nonce])

\* Lines 286-290: after the submission returned a transaction.
ReclaimSubmitted(s) ==
    LET hash == Hash(s.i, 1)
        s1 == Push(s, "submitted", hash)
    IN  IF s.waitConfirm
        THEN Await(s1, "reclaimWait", [Call("wait") EXCEPT !.hash = hash])
        ELSE ReclaimAfter(s1)

\* ------------------------------------------------------------ the network
\* The error ethers raises for a recipient that is no address.
InvalidAddress == [code |-> "INVALID_ARGUMENT", message |-> {}]

\* What a call of r may come back with: NoError (it resolved), or an error
\* while the fault budget lasts.
Outcomes(r) == {NoError} \cup (IF net[r].faults < MaxFaults THEN Errors ELSE {})

\* A transfer or an estimate to a string that is no address always fails.
TransferOutcomes(r) ==
    LET s == run[r]
    IN  IF s.recipients[s.i + 1] = "text" THEN {InvalidAddress} ELSE Outcomes(r)

\* The error classes as the specification words them: a stale nonce (code
\* NONCE_EXPIRED, or a message with "nonce too low" or "already been used"), the
\* node's in-flight limit, anything else.
StaleNonce(e) ==
    e.code = "NONCE_EXPIRED" \/ e.message \cap {"nonce too low", "already been used"} # {}

InFlightLimit(e) == "in-flight transaction limit" \in e.message

ErrorClass(e) ==
    IF InFlightLimit(e) THEN "in-flight" ELSE IF StaleNonce(e) THEN "stale" ELSE "error"

\* What the observer notes when r moves from s to s2 because the call of s
\* came back with `error`, or resolved to `got` when error is NoError (for an
\* estimate, `got` is the gas limit estimateGasLimit returned either way).  A
\* sendTransaction call is noted with its item, its nonce, whether it is the
\* retry, for a retry what the re-fetch resolved to, and its result: pending,
\* ok, or how it failed (a retry's failure is noted as "error" whatever it is).
Observe(n, s, s2, error, got) ==
    LET issued == s2.call.op \notin {"none", "delay"}
        settled == IF s.call.op = "sendTransaction" /\ Len(n.txs) > 0
                   THEN [n.txs EXCEPT ![Len(n.txs)].result =
                            IF error = NoError THEN "ok"
                            ELSE IF n.txs[Len(n.txs)].retry THEN "error"
                            ELSE ErrorClass(error)]
                   ELSE n.txs
        over == s2.i # s.i \/ s2.pc \in {"delay", "reclaimDelay", "done", "thrown"}
    IN  [n EXCEPT
          !.rpc = @ + (IF issued THEN 1 ELSE 0),
          !.faults = @ + (IF error \in Errors THEN 1 ELSE 0),
          !.looping = @ \/ (error = NoError /\ s.pc = "getTransactionCount")
                        \/ (error = NoError /\ s.pc = "reclaimGetFeeData"
                            /\ parseEther(s.reserveEth) >= 0),
          !.startNonce = IF s.pc = "getTransactionCount" /\ error = NoError THEN got ELSE @,
          !.txs = IF s2.call.op = "sendTransaction"
                  THEN Append(settled,
                              [item |-> s2.call.to, nonce |-> s2.call.nonce,
                               retry |-> s2.pc = "retrySendTransaction",
                               fetched |-> IF s.pc = "retryGetTransactionCount"
                                           THEN got ELSE -1,
                               result |-> "pending"])
                  ELSE settled,
          !.caught = IF over THEN NoError
                     ELSE IF s.pc \in {"sendTransaction", "wait"} /\ error # NoError
                          THEN error ELSE @,
          !.waited = IF over THEN "no"
                     ELSE IF s.pc = "waitForTransaction" /\ error = NoError
                          THEN "confirmation"
                     ELSE IF s.pc = "backoff" THEN "sleep" ELSE @,
          !.quote = IF s.pc \in {"reclaimEstimateGas", "reclaimFinalEstimateGas"}
                    THEN [item |-> s.i + 1, balance |-> s.balance,
                          reserve |-> s.reserveWei, cost |-> got * s.maxFeePerGas]
                    ELSE IdleNet.quote,
          !.feeData = IF s.pc \in {"getFeeData", "reclaimGetFeeData"} /\ error = NoError
                      THEN [maxFeePerGas |-> got.maxFeePerGas, gasPrice |-> got.gasPrice,
                            maxPriorityFeePerGas |-> got.maxPriorityFeePerGas,
                            resolved |-> TRUE]
                      ELSE @ ]

\* Lines 327-347: the response the HTTP handler writes when the batch handler
\* returns or throws.
Respond(s2) ==
    IF s2.pc = "done" THEN [status |-> 200, logs |-> s2.logs]
    ELSE IF s2.pc = "thrown" THEN [status |-> 500, logs |-> <<>>]
    ELSE NoResponse

Step(r, s2, error, got) ==
    /\ run' = [run EXCEPT ![r] = s2]
    /\ net' = [net EXCEPT ![r] = Observe(@, run[r], s2, error, got)]
    /\ res' = [res EXCEPT ![r] = Respond(s2)]
    /\ UNCHANGED <<gui, hd, batch, snd, gbm, panel>>

\* ----------------------------------------------------------------- actions
\* POST /api/send-batch: handleSendBatch up to its first await.
SendBatch(r) ==
    /\ req[r].url = "/api/send-batch"
    /\ run[r].pc = "idle"
    /\ LET payload == req[r].payload
           s2 == SendBatchEntry(run[r], payload)
       IN  /\ run' = [run EXCEPT ![r] = s2]
           /\ res' = [res EXCEPT ![r] = Respond(s2)]
           /\ net' = [net EXCEPT ![r] =
                  [Observe(@, run[r], s2, NoError, 0) EXCEPT
                     !.missing = \/ payload.rpcUrl = ""
                                 \/ payload.fundingSecret = ""
                                 \/ ~payload.recipients.isArray
                                 \/ Len(payload.recipients.items) = 0,
                     !.malformed =
                        {f \in {"amountEth"} :
                            payload.amountEth # "" /\ parseEther(payload.amountEth) < 0}
                        \cup {f \in {"fundingSecret"} :
                            payload.fundingSecret # ""
                            /\ resolveFundingWallet(payload.fundingSecret) = "throw"}]]
    /\ req' = [req EXCEPT ![r] = NoRequest]
    /\ UNCHANGED <<gui, hd, batch, snd, gbm, panel>>

\* getFeeData resolves or rejects.
SendFeeData(r) ==
    /\ run[r].pc = "getFeeData"
    /\ \E error \in Outcomes(r) :
         IF error = NoError
         THEN \E feeData \in FeeDatas : Step(r, SendBatchFees(run[r], feeData), error, feeData)
         ELSE Step(r, Throw(run[r], "getFeeData"), error, 0)
    /\ UNCHANGED req

\* The first getTransactionCount resolves or rejects.
SendNonce(r) ==
    /\ run[r].pc = "getTransactionCount"
    /\ \E error \in Outcomes(r) :
         IF error = NoError
         THEN \E n \in PendingNonces :
                Step(r, SendBatchNonce(run[r], n), error, n)
         ELSE Step(r, Throw(run[r], "getTransactionCount"), error, 0)
    /\ UNCHANGED req

\* estimateGasLimit: the estimate with its buffer, or the fallback.
SendEstimate(r) ==
    /\ run[r].pc = "estimateGas"
    /\ \E error \in TransferOutcomes(r) :
         IF error = NoError
         THEN \E estimate \in Estimates :
                Step(r, Submit([run[r] EXCEPT !.gasLimit = addGasBuffer(estimate)],
                               "sendTransaction"), error, 0)
         ELSE Step(r, Submit([run[r] EXCEPT !.gasLimit = GAS_LIMIT_FALLBACK],
                             "sendTransaction"), error, 0)
    /\ UNCHANGED req

\* The first sendTransaction resolves or rejects.
SendTransaction(r) ==
    /\ run[r].pc = "sendTransaction"
    /\ \E error \in TransferOutcomes(r) :
         IF error = NoError
         THEN Step(r, Submitted(run[r], "submitted", 1, "wait"), error, 0)
         ELSE Step(r, Catch(run[r], error), error, 0)
    /\ UNCHANGED req

\* tx.wait(1) resolves or rejects.
SendWait(r) ==
    /\ run[r].pc = "wait"
    /\ \E error \in Outcomes(r) :
         IF error = NoError
         THEN Step(r, AfterRecipient(Push(run[r], "confirmed", 0)), error, 0)
         ELSE Step(r, Catch(run[r], error), error, 0)
    /\ UNCHANGED req

\* provider.waitForTransaction(lastSubmittedHash, 1) resolves or rejects.
SendWaitForTransaction(r) ==
    /\ run[r].pc = "waitForTransaction"
    /\ \E error \in Outcomes(r) :
         IF error = NoError
         THEN Step(r, Refetch(run[r]), error, 0)
         ELSE Step(r, CatchRetry(run[r]), error, 0)
    /\ UNCHANGED req

\* The backoff timer fires.
SendBackoff(r) ==
    /\ run[r].pc = "backoff"
    /\ Step(r, Refetch(run[r]), NoError, 0)
    /\ UNCHANGED req

\* The re-fetch of the pending nonce resolves or rejects.
SendRefetch(r) ==
    /\ run[r].pc = "retryGetTransactionCount"
    /\ \E error \in Outcomes(r) :
         IF error = NoError
         THEN \E n \in PendingNonces :
                Step(r, Refetched(run[r], n), error, n)
         ELSE Step(r, CatchRetry(run[r]), error, 0)
    /\ UNCHANGED req

\* The retry's sendTransaction resolves or rejects.
SendRetryTransaction(r) ==
    /\ run[r].pc = "retrySendTransaction"
    /\ \E error \in TransferOutcomes(r) :
         IF error = NoError
         THEN Step(r, Submitted(run[r], "retried", 2, "retryWait"), error, 0)
         ELSE Step(r, CatchRetry(run[r]), error, 0)
    /\ UNCHANGED req

\* retryTx.wait(1) resolves or rejects.
SendRetryWait(r) ==
    /\ run[r].pc = "retryWait"
    /\ \E error \in Outcomes(r) :
         IF error = NoError
         THEN Step(r, AfterRecipient(Push(run[r], "confirmed", 0)), error, 0)
         ELSE Step(r, CatchRetry(run[r]), error, 0)
    /\ UNCHANGED req

\* The spacing timer fires.
SendDelay(r) ==
    /\ run[r].pc = "delay"
    /\ Step(r, NextRecipient(run[r]), NoError, 0)
    /\ UNCHANGED req

\* POST /api/reclaim-batch: handleReclaimBatch up to its first await.
ReclaimBatch(r) ==
    /\ req[r].url = "/api/reclaim-batch"
    /\ run[r].pc = "idle"
    /\ LET payload == req[r].payload
           s2 == ReclaimBatchEntry(run[r], payload)
       IN  /\ run' = [run EXCEPT ![r] = s2]
           /\ res' = [res EXCEPT ![r] = Respond(s2)]
           /\ net' = [net EXCEPT ![r] =
                  [Observe(@, run[r], s2, NoError, 0) EXCEPT
                     !.missing = \/ payload.rpcUrl = ""
                                 \/ payload.reclaimAddress = ""
                                 \/ ~payload.entries.isArray
                                 \/ Len(payload.entries.items) = 0,
                     !.malformed =
                        {f \in {"reserveEth"} :
                            parseEther(ReserveOrZero(payload.reserveEth)) < 0}]]
    /\ req' = [req EXCEPT ![r] = NoRequest]
    /\ UNCHANGED <<gui, hd, batch, snd, gbm, panel>>

\* getFeeData resolves or rejects.
ReclaimFeeData(r) ==
    /\ run[r].pc = "reclaimGetFeeData"
    /\ \E error \in Outcomes(r) :
         IF error = NoError
         THEN \E feeData \in FeeDatas : Step(r, ReclaimBatchFees(run[r], feeData), error, feeData)
         ELSE Step(r, Throw(run[r], "getFeeData"), error, 0)
    /\ UNCHANGED req

\* The entry's getTransactionCount resolves or rejects.
ReclaimNonce(r) ==
    /\ run[r].pc = "reclaimGetTransactionCount"
    /\ \E error \in Outcomes(r) :
         IF error = NoError
         THEN \E n \in PendingNonces :
                Step(r, Await([run[r] EXCEPT !.nonce = n], "reclaimGetBalance",
                              Call("getBalance")), error, n)
         ELSE Step(r, ReclaimCatch(run[r]), error, 0)
    /\ UNCHANGED req

\* getBalance resolves or rejects; then the probe estimate for 1 wei.
ReclaimBalance(r) ==
    /\ run[r].pc = "reclaimGetBalance"
    /\ \E error \in Outcomes(r) :
         IF error = NoError
         THEN \E balance \in Balances :
                Step(r, Await([run[r] EXCEPT !.balance = balance], "reclaimEstimateGas",
                              [Call("estimateGas") EXCEPT !.to = run[r].i + 1, !.value = 1]),
                     error, 0)
         ELSE Step(r, ReclaimCatch(run[r]), error, 0)
    /\ UNCHANGED req

\* The probe estimate: the estimate with its buffer, or GAS_LIMIT_FALLBACK.
ReclaimEstimate(r) ==
    /\ run[r].pc = "reclaimEstimateGas"
    /\ \E error \in Outcomes(r) :
         IF error = NoError
         THEN \E estimate \in ReclaimEstimates :
                Step(r, ReclaimProbed(run[r], addGasBuffer(estimate)), error,
                     addGasBuffer(estimate))
         ELSE Step(r, ReclaimProbed(run[r], GAS_LIMIT_FALLBACK), error,
                   GAS_LIMIT_FALLBACK)
    /\ UNCHANGED req

\* The second estimate: the estimate with its buffer, or the probe's limit.
ReclaimFinalEstimate(r) ==
    /\ run[r].pc = "reclaimFinalEstimateGas"
    /\ \E error \in Outcomes(r) :
         IF error = NoError
         THEN \E estimate \in ReclaimEstimates :
                Step(r, ReclaimEstimated(run[r], addGasBuffer(estimate)), error,
                     addGasBuffer(estimate))
         ELSE Step(r, ReclaimEstimated(run[r], run[r].estimatedGasLimit), error,
                   run[r].estimatedGasLimit)
    /\ UNCHANGED req

\* The entry's sendTransaction resolves or rejects.
ReclaimTransaction(r) ==
    /\ run[r].pc = "reclaimSendTransaction"
    /\ \E error \in Outcomes(r) :
         IF error = NoError
         THEN Step(r, ReclaimSubmitted(run[r]), error, 0)
         ELSE Step(r, ReclaimCatch(run[r]), error, 0)
    /\ UNCHANGED req

\* tx.wait(1) resolves or rejects.
ReclaimWait(r) ==
    /\ run[r].pc = "reclaimWait"
    /\ \E error \in Outcomes(r) :
         IF error = NoError
         THEN Step(r, ReclaimAfter(Push(run[r], "confirmed", 0)), error, 0)
         ELSE Step(r, ReclaimCatch(run[r]), error, 0)
    /\ UNCHANGED req

\* The spacing timer fires.
ReclaimDelay(r) ==
    /\ run[r].pc = "reclaimDelay"
    /\ Step(r, ReclaimNext(run[r]), NoError, 0)
    /\ UNCHANGED req

\* ------------------------------------------- cryptoUtils / cryptoUtilsGUI
\* Texts are sequences of code points, binary data sequences of bytes, Base64
\* strings sequences of characters: 0..63 the alphabet A-Z a-z 0-9 + /,
\* PAD the "=" sign, any other number a character outside the alphabet.
PAD == 64

RECURSIVE xor(_, _)
\* a ^ b on bytes.
xor(a, b) ==
    IF a = 0 THEN b
    ELSE IF b = 0 THEN a
    ELSE (((a % 2) + (b % 2)) % 2) + (2 * xor(a \div 2, b \div 2))

RECURSIVE Sum(_)
Sum(q) == IF q = <<>> THEN 0 ELSE Head(q) + Sum(Tail(q))

\* q.subarray(from, to) / q.slice(from, to), 0-based, `to` excluded.
subarray(q, from, to) ==
    LET end == IF to > Len(q) THEN Len(q) ELSE to
    IN  IF from >= end THEN <<>> ELSE SubSeq(q, from + 1, end)

RECURSIVE toBase64(_)
\* data.toString('base64') and btoa(String.fromCharCode(...data)): three bytes
\* make four characters; one or two last bytes are padded with "=".
toBase64(data) ==
    IF Len(data) = 0 THEN <<>>
    ELSE IF Len(data) = 1
    THEN <<data[1] \div 4, (data[1] % 4) * 16, PAD, PAD>>
    ELSE IF Len(data) = 2
    THEN <<data[1] \div 4, ((data[1] % 4) * 16) + (data[2] \div 16), (data[2] % 16) * 4, PAD>>
    ELSE <<data[1] \div 4,
           ((data[1] % 4) * 16) + (data[2] \div 16),
           ((data[2] % 16) * 4) + (data[3] \div 64),
           data[3] % 64>>
         \o toBase64(SubSeq(data, 4, Len(data)))

RECURSIVE fromSextets(_)
\* The bytes of a run of alphabet characters; bits left over are dropped.
fromSextets(c) ==
    IF Len(c) < 2 THEN <<>>
    ELSE IF Len(c) = 2 THEN <<(c[1] * 4) + (c[2] \div 16)>>
    ELSE IF Len(c) = 3
    THEN <<(c[1] * 4) + (c[2] \div 16), ((c[2] % 16) * 16) + (c[3] \div 4)>>
    ELSE <<(c[1] * 4) + (c[2] \div 16), ((c[2] % 16) * 16) + (c[3] \div 4),
           ((c[3] % 4) * 64) + c[4]>>
         \o fromSextets(SubSeq(c, 5, Len(c)))

InAlphabet(ch) == ch \in 0..63

\* The position of the first character that is not of the alphabet, or
\* Len(str) + 1.
FirstOutside(str) ==
    IF \A k \in DOMAIN str : InAlphabet(str[k]) THEN Len(str) + 1
    ELSE CHOOSE k \in DOMAIN str :
            ~InAlphabet(str[k]) /\ \A j \in 1..(k - 1) : InAlphabet(str[j])

\* Buffer.from(str, 'base64'): never throws; decoding ends at the first "=".
BufferFromBase64(str) ==
    LET cut == IF \E k \in DOMAIN str : str[k] = PAD
               THEN SubSeq(str, 1, (CHOOSE k \in DOMAIN str :
                                        str[k] = PAD /\ \A j \in 1..(k - 1) : str[j] # PAD) - 1)
               ELSE str
    IN  fromSextets(SelectSeq(cut, InAlphabet))

\* atob(str): with a length that is a multiple of 4 one or two final "=" are
\* removed; then a length of 4n + 1 or a character outside the alphabet is an
\* InvalidCharacterError, written <<-1>>.
atob(str) ==
    LET n == Len(str)
        pads == IF n % 4 = 0 /\ n > 0 /\ str[n] = PAD
                THEN (IF str[n - 1] = PAD THEN 2 ELSE 1) ELSE 0
        body == SubSeq(str, 1, n - pads)
    IN  IF Len(body) % 4 = 1 \/ FirstOutside(body) <= Len(body) THEN <<-1>>
        ELSE fromSextets(body)

REPLACEMENT == 65533

RECURSIVE utf8Encode(_)
\* cipher.update(text, 'utf8') / TextEncoder.encode: a code point below 128 is
\* one byte, one below 2048 two bytes.
utf8Encode(text) ==
    IF text = <<>> THEN <<>>
    ELSE (IF Head(text) < 128 THEN <<Head(text)>>
          ELSE <<192 + (Head(text) \div 64), 128 + (Head(text) % 64)>>)
         \o utf8Encode(Tail(text))

RECURSIVE utf8Decode(_)
\* decrypted.toString('utf8') / TextDecoder.decode: never throws; a byte that
\* starts no well-formed sequence becomes U+FFFD (so does, here, every byte of
\* a sequence longer than two bytes: a character outside ASCII either way).
utf8Decode(bytes) ==
    IF bytes = <<>> THEN <<>>
    ELSE IF Head(bytes) < 128 THEN <<Head(bytes)>> \o utf8Decode(Tail(bytes))
    ELSE IF /\ Head(bytes) \in 194..223
            /\ Len(bytes) >= 2
            /\ bytes[2] \in 128..191
    THEN <<((Head(bytes) - 192) * 64) + (bytes[2] - 128)>>
         \o utf8Decode(SubSeq(bytes, 3, Len(bytes)))
    ELSE <<REPLACEMENT>> \o utf8Decode(Tail(bytes))

RECURSIVE split(_, _)
\* text.split(sep): the pieces between the separators.
split(text, sep) ==
    IF \A k \in DOMAIN text : text[k] # sep THEN <<text>>
    ELSE LET k == CHOOSE j \in DOMAIN text :
                      text[j] = sep /\ \A m \in 1..(j - 1) : text[m] # sep
         IN  <<SubSeq(text, 1, k - 1)>> \o split(SubSeq(text, k + 1, Len(text)), sep)

\* The word list of the model's BIP39: the words "a", "b", "c", "d"; a
\* mnemonic has 3 or 6 words (for 12 to 24), the last of which is the checksum
\* of the others.
SPACE == 32

WORDLIST == {<<97>>, <<98>>, <<99>>, <<100>>}

WordCounts == {3, 6}

WordIndex(word) == word[1] - 97

\* bip39.validateMnemonic behind validateMnemonic's try/catch.
validateMnemonic(mnemonic) ==
    LET words == split(mnemonic, SPACE)
        n == Len(words)
    IN  /\ n \in WordCounts
        /\ \A k \in 1..n : words[k] \in WORDLIST
        /\ WordIndex(words[n]) = Sum([k \in 1..(n - 1) |-> WordIndex(words[k])]) % 4

RECURSIVE Digest(_, _)
\* A deterministic mixing of a byte string into a number, which stands for the
\* hash and block-cipher primitives of the crypto libraries.
Digest(q, h) ==
    IF q = <<>> THEN h ELSE Digest(Tail(q), ((h * 31) + Head(q) + 1) % 65521)

\* pbkdf2(password, salt, 10000, 32, 'sha256') / crypto.subtle.deriveKey.
pbkdf2(password, salt) == Digest(salt, Digest(utf8Encode(password), 7))

\* AES-256-CTR with key and iv: every byte is XORed with the key stream's
\* byte; encryption and decryption are the same operation.
aesCtr(key, iv, data) ==
    [k \in 1..Len(data) |-> xor(data[k], Digest(iv, key + k) % 256)]

\* AES-GCM's authentication tag of 16 bytes over iv and ciphertext.
gcmTag(key, iv, ciphertext) ==
    [j \in 1..16 |-> Digest(ciphertext, Digest(iv, key + (1000 * j))) % 256]

\* crypto.subtle.encrypt({name: 'AES-GCM', iv}, key, data): ciphertext and tag.
gcmEncrypt(key, iv, data) ==
    LET ciphertext == aesCtr(key, iv, data)
    IN  ciphertext \o gcmTag(key, iv, ciphertext)

\* crypto.subtle.decrypt({name: 'AES-GCM', iv}, key, data): the plaintext, or
\* <<-1>> for the OperationError of a missing or wrong tag.
gcmDecrypt(key, iv, data) ==
    IF Len(data) < 16 THEN <<-1>>
    ELSE LET ciphertext == SubSeq(data, 1, Len(data) - 16)
             tag == SubSeq(data, Len(data) - 15, Len(data))
         IN  IF tag # gcmTag(key, iv, ciphertext) THEN <<-1>>
             ELSE aesCtr(key, iv, ciphertext)

\* What encryptMnemonic and decryptMnemonic deliver: a value, or the message
\* of the Error they throw.  The messages are the source's, in English.
Returned(value) == [ok |-> TRUE, value |-> value, error |-> ""]

Thrown(prefix, message) == [ok |-> FALSE, value |-> <<>>, error |-> prefix \o ": " \o message]

\* cryptoUtils.js (AES-256-CTR): encryptMnemonic with the salt and the iv that
\* randomBytes(16) drew.
cryptoUtils_encryptMnemonic(mnemonic, password, salt, iv) ==
    IF mnemonic = <<>> \/ password = <<>>
    THEN Thrown("encrypt failed", "mnemonic and password must not be empty")
    ELSE IF ~validateMnemonic(mnemonic)
    THEN Thrown("encrypt failed", "mnemonic format is not correct")
    ELSE LET key == pbkdf2(password, salt)
             encrypted == aesCtr(key, iv, utf8Encode(mnemonic))
             finalData == salt \o iv \o encrypted
         IN  Returned(toBase64(finalData))

\* cryptoUtils_decryptMnemonic returning whatever the decryption gives.
cryptoUtils_decryptMnemonicUnchecked(encryptedData, password) ==
    IF encryptedData = <<>> \/ password = <<>>
    THEN Thrown("decrypt failed", "data and password must not be empty")
    ELSE LET data == BufferFromBase64(encryptedData)
         IN  IF Len(data) < 32
             THEN Thrown("decrypt failed", "data format error")
             ELSE LET salt == subarray(data, 0, 16)
                      iv == subarray(data, 16, 32)
                      encrypted == subarray(data, 32, Len(data))
                      key == pbkdf2(password, salt)
                  IN  Returned(utf8Decode(aesCtr(key, iv, encrypted)))

cryptoUtils_decryptMnemonic(encryptedData, password) ==
    IF encryptedData = <<>> \/ password = <<>>
    THEN Thrown("decrypt failed", "data and password must not be empty")
    ELSE LET data == BufferFromBase64(encryptedData)
         IN  IF Len(data) < 32
             THEN Thrown("decrypt failed", "data format error")
             ELSE LET salt == subarray(data, 0, 16)
                      iv == subarray(data, 16, 32)
                      encrypted == subarray(data, 32, Len(data))
                      key == pbkdf2(password, salt)
                      decrypted == aesCtr(key, iv, encrypted)
                      mnemonicText == utf8Decode(decrypted)
                  IN  IF ~validateMnemonic(mnemonicText)
                      THEN Thrown("decrypt failed",
                                  "result is not a valid mnemonic, wrong password or corrupted data")
                      ELSE Returned(mnemonicText)

\* validateEncryptedData asking for the salt and the iv only.
validateEncryptedDataHeaderOnly(encryptedData) ==
    IF encryptedData = <<>>
    THEN [valid |-> FALSE, error |-> "data must not be empty", encryptedLength |-> 0]
    ELSE LET data == BufferFromBase64(encryptedData)
         IN  IF Len(data) < 32
             THEN [valid |-> FALSE, error |-> "data too short", encryptedLength |-> 0]
             ELSE [valid |-> TRUE, error |-> "", encryptedLength |-> Len(data) - 32]

\* cryptoUtils.js: validateEncryptedData, for a string.
validateEncryptedData(encryptedData) ==
    IF encryptedData = <<>>
    THEN [valid |-> FALSE, error |-> "data must not be empty", encryptedLength |-> 0]
    ELSE LET data == BufferFromBase64(encryptedData)
         IN  IF Len(data) < 33
             THEN [valid |-> FALSE, error |-> "data too short", encryptedLength |-> 0]
             ELSE [valid |-> TRUE, error |-> "", encryptedLength |-> Len(data) - 32]

\* cryptoUtilsGUI.js (WebCrypto AES-GCM): encryptMnemonic with the salt of 16
\* bytes and the iv of 12 bytes that crypto.getRandomValues drew.
cryptoUtilsGUI_encryptMnemonic(mnemonic, password, salt, iv) ==
    IF mnemonic = <<>> \/ password = <<>>
    THEN Thrown("encrypt failed", "mnemonic and password must not be empty")
    ELSE IF ~validateMnemonic(mnemonic)
    THEN Thrown("encrypt failed", "mnemonic format is not correct")
    ELSE LET key == pbkdf2(password, salt)
             encrypted == gcmEncrypt(key, iv, utf8Encode(mnemonic))
             result == salt \o iv \o encrypted
         IN  Returned(toBase64(result))

\* cryptoUtilsGUI_decryptMnemonic reading the iv and the ciphertext at the
\* offsets of cryptoUtils.js.
cryptoUtilsGUI_decryptMnemonicCtrOffsets(encryptedData, password) ==
    IF encryptedData = <<>> \/ password = <<>>
    THEN Thrown("decrypt failed", "data and password must not be empty")
    ELSE LET data == atob(encryptedData)
         IN  IF data = <<-1>>
             THEN Thrown("decrypt failed", "InvalidCharacterError")
             ELSE IF Len(data) < 32
             THEN Thrown("decrypt failed", "data format error")
             ELSE LET salt == subarray(data, 0, 16)
                      iv == subarray(data, 16, 32)
                      encrypted == subarray(data, 32, Len(data))
                      key == pbkdf2(password, salt)
                      decrypted == gcmDecrypt(key, iv, encrypted)
                  IN  IF decrypted = <<-1>>
                      THEN Thrown("decrypt failed", "OperationError")
                      ELSE LET mnemonicText == utf8Decode(decrypted)
                           IN  IF ~validateMnemonic(mnemonicText)
                               THEN Thrown("decrypt failed",
                                           "result is not a valid mnemonic, wrong password")
                               ELSE Returned(mnemonicText)

cryptoUtilsGUI_decryptMnemonic(encryptedData, password) ==
    IF encryptedData = <<>> \/ password = <<>>
    THEN Thrown("decrypt failed", "data and password must not be empty")
    ELSE LET data == atob(encryptedData)
         IN  IF data = <<-1>>
             THEN Thrown("decrypt failed", "InvalidCharacterError")
             ELSE IF Len(data) < 28
             THEN Thrown("decrypt failed", "data format error")
             ELSE LET salt == subarray(data, 0, 16)
                      iv == subarray(data, 16, 28)
                      encrypted == subarray(data, 28, Len(data))
                      key == pbkdf2(password, salt)
                      decrypted == gcmDecrypt(key, iv, encrypted)
                  IN  IF decrypted = <<-1>>
                      THEN Thrown("decrypt failed", "OperationError")
                      ELSE LET mnemonicText == utf8Decode(decrypted)
                           IN  IF ~validateMnemonic(mnemonicText)
                               THEN Thrown("decrypt failed",
                                           "result is not a valid mnemonic, wrong password")
                               ELSE Returned(mnemonicText)

\* ------------------------------------------------- the encryption panel
\* No result yet.
NoResult == [ok |-> FALSE, value |-> <<>>, error |-> "none"]

NoValidation == [valid |-> FALSE, error |-> "none", encryptedLength |-> 0]

\* No generation and no derivation has been asked for.
IdleHd ==
    [ pc |-> "off",            \* off, input, generated
      module |-> "",           \* the module whose generateMnemonic is in use
      wordCount |-> "",        \* generateMnemonic's argument, as a property key
      entropy |-> <<>>,        \* the random bytes the generation drew
      generated |-> NoResult,  \* what generateMnemonic delivered
      derivations |-> <<>>,    \* the generateEthereumAddress calls made so far
      consistency |-> <<>> ]   \* the validateAddressConsistency calls made so far

\* The invocations of handleStart that may be under way at a time; each one
\* awaits its own processBatch.
Starts == {1, 2}

\* One invocation of handleStart and of the processBatch it awaits.
IdleProc ==
    [ pc |-> "off",            \* off, poll, generate, encrypt, export, done
      i |-> 0,                 \* processBatch's loop variable
      batchResults |-> <<>>,   \* processBatch's local array
      timer |-> 0,             \* the timeout of the pending poll, in ms
      returned |-> <<>>,       \* what processBatch returned (pc export, done)
      started |-> <<>>,        \* the i of every iteration that began, in order
      polled |-> FALSE,        \* the timer of the pause loop has fired
      stopped |-> FALSE,       \* handleStop was invoked during this invocation
      startedAtStop |-> 0,     \* Len(started) at the first such handleStop
      pausedAtStop |-> FALSE,  \* it waited in the pause loop at that handleStop
      atStop |-> <<>> ]        \* batchResults at the first such handleStop

\* The BatchProcessor component before handleStart: its state, its refs and
\* the invocations of handleStart.
IdleBatch ==
    [ batchSize |-> 0,
      processing |-> FALSE,    \* the state and the ref it is mirrored in
      processingRef |-> FALSE,
      paused |-> FALSE,
      pausedRef |-> FALSE,
      results |-> <<>>,        \* the results state
      proc |-> [k \in Starts |-> IdleProc] ]

\* The three senders of a batch, in the order in which they are run here.
SenderOrder == <<"browser", "serverless", "tx-server">>

\* The senders before the batch is handed to them: the position and the
\* locals of each (as for a handler invocation), the (recipient, nonce) of the
\* sendTransaction calls each has issued, and what the network has answered
\* so far to the calls that were made.
IdleSenders ==
    [ s |-> [k \in DOMAIN SenderOrder |-> IdleRun],
      txs |-> [k \in DOMAIN SenderOrder |-> <<>>],
      answers |-> {} ]

\* GasBatchManager before a CSV is loaded: its React state, and the position
\* and the locals (i, results, errors) of its handleDecrypt.
IdleGbm ==
    [ pc |-> "off",              \* off, idle, decryptMnemonic
      decryptPassword |-> "",
      encryptedItems |-> <<>>,   \* what parseEncryptedCsv delivered
      decrypting |-> FALSE,
      decryptErrors |-> <<>>,
      decryptProgress |-> 0,
      decryptedItems |-> <<>>,
      selectedIds |-> <<>>,
      i |-> 0,
      results |-> <<>>,
      errors |-> <<>>,
      delivered |-> <<>>,        \* what decryptMnemonic settled with, item by item
      last |-> "none" ]          \* how handleDecrypt ended: none, refused, finished

\* The EncryptionPanel in encrypt mode before anything is typed: its props
\* (mnemonics, encryptedResults), its state, and the position and the locals
\* (targetMnemonics, results) of its handleEncrypt.
IdlePanel ==
    [ pc |-> "off",              \* off, idle, encryptMnemonic
      mnemonics |-> <<>>,        \* the texts of the mnemonics handed down
      encryptedResults |-> <<>>,
      password |-> <<>>,
      confirmPassword |-> <<>>,
      inputMnemonic |-> <<>>,
      encrypting |-> FALSE,
      targetMnemonics |-> <<>>,
      secret |-> <<>>,           \* the password of the render handleEncrypt ran in
      results |-> <<>>,
      alert |-> "",              \* the last alert shown
      timer |-> FALSE,           \* the 100 ms timer that clears the inputs is set
      before |-> <<>>,           \* encryptedResults when handleEncrypt began
      last |-> "none" ]          \* how handleEncrypt ended: none, refused, stored, failed

IdleGui ==
    [ pc |-> "off",                 \* off, input, sealed, rejected
      module |-> "",                \* the module whose functions are in use
      mnemonic |-> <<>>,            \* what encryptMnemonic was given
      password |-> <<>>,
      salt |-> <<>>,                \* what encryptMnemonic drew
      iv |-> <<>>,
      envelope |-> NoResult,        \* what encryptMnemonic delivered
      tamper |-> "none",            \* what happened to the envelope since
      inputEncryptedData |-> <<>>,  \* the envelope as it is now
      attempt |-> <<>>,             \* the password of the last decryptMnemonic
      outcome |-> NoResult,         \* what the last decryptMnemonic delivered
      validation |-> NoValidation,  \* what validateEncryptedData delivered
      handler |-> "idle",           \* EncryptionPanel.handleDecrypt: idle, decryptMnemonic
      target |-> <<>>,              \* handleDecrypt's targetPassword
      decrypting |-> FALSE,
      decryptResult |-> <<>>,
      alert |-> "",                 \* the last alert shown
      last |-> "none",              \* how the last handleDecrypt ended
      shown |-> FALSE ]             \* a plaintext was on display when it began

\* The texts the user may type ("a b b", "c d b", "a b b a a c", "a b c") and
\* the passwords ("p1", "p2"), empty fields included.
MnemonicInputs ==
    { <<>>,
      <<97, 32, 98, 32, 98>>,
      <<99, 32, 100, 32, 98>>,
      <<97, 32, 98, 32, 98, 32, 97, 32, 97, 32, 99>>,
      <<97, 32, 98, 32, 99>> }

Passwords == { <<>>, <<112, 49>>, <<112, 50>> }

\* What randomBytes(n) / crypto.getRandomValues may draw: one string of n
\* bytes per seed.
RandomBytes(n) == { [k \in 1..n |-> ((seed * 37) + (k * 11)) % 256] : seed \in 1..MaxSeeds }

Modules == {"cryptoUtils", "cryptoUtilsGUI"}

\* The length of the iv and of salt plus iv in each module.
IvLength(module) == IF module = "cryptoUtils" THEN 16 ELSE 12

HeaderLength(module) == 16 + IvLength(module)

encryptMnemonic(module, mnemonic, password, salt, iv) ==
    IF module = "cryptoUtils"
    THEN cryptoUtils_encryptMnemonic(mnemonic, password, salt, iv)
    ELSE cryptoUtilsGUI_encryptMnemonic(mnemonic, password, salt, iv)

decryptMnemonic(module, encryptedData, password) ==
    IF module = "cryptoUtils"
    THEN cryptoUtils_decryptMnemonic(encryptedData, password)
    ELSE cryptoUtilsGUI_decryptMnemonic(encryptedData, password)

\* encryptMnemonic(mnemonic, password) with the salt and iv it draws.
EncryptMnemonic ==
    /\ gui.pc = "input"
    /\ \E salt \in RandomBytes(16), iv \in RandomBytes(IvLength(gui.module)) :
         LET result == encryptMnemonic(gui.module, gui.mnemonic, gui.password, salt, iv)
         IN  gui' = [gui EXCEPT !.pc = IF result.ok THEN "sealed" ELSE "rejected",
                                !.salt = IF result.ok THEN salt ELSE <<>>,
                                !.iv = IF result.ok THEN iv ELSE <<>>,
                                !.envelope = result,
                                !.inputEncryptedData = result.value]
    /\ UNCHANGED <<req, run, res, net, hd, batch, snd, gbm, panel>>

\* The envelope is damaged in storage or transit: cut to its first n bytes, one
\* byte changed, its Base64 text cut by one character, or emptied.
Bytes(module, str) == IF module = "cryptoUtils" THEN BufferFromBase64(str) ELSE atob(str)

Tampered(module, str) ==
    LET data == Bytes(module, str)
    IN  { [kind |-> "truncated", data |-> toBase64(SubSeq(data, 1, n))] :
              n \in 1..(Len(data) - 1) }
        \cup { [kind |-> "flipped",
                data |-> toBase64([data EXCEPT ![k] = xor(@, 1)])] :
                  k \in {1, 17, HeaderLength(module) + 1, Len(data)} }
        \cup { [kind |-> "cut", data |-> SubSeq(str, 1, Len(str) - 1)],
               [kind |-> "emptied", data |-> <<>>] }

Tamper ==
    /\ gui.pc = "sealed"
    /\ gui.tamper = "none"
    /\ gui.handler = "idle"
    /\ gui.outcome = NoResult
    /\ gui.validation = NoValidation
    /\ \E t \in Tampered(gui.module, gui.inputEncryptedData) :
         gui' = [gui EXCEPT !.tamper = t.kind, !.inputEncryptedData = t.data]
    /\ UNCHANGED <<req, run, res, net, hd, batch, snd, gbm, panel>>

\* decryptMnemonic(encryptedData, password), called directly.
DecryptMnemonic ==
    /\ gui.pc = "sealed"
    /\ gui.handler = "idle"
    /\ \E password \in Passwords :
         gui' = [gui EXCEPT !.attempt = password,
                            !.outcome = decryptMnemonic(gui.module, gui.inputEncryptedData,
                                                        password)]
    /\ UNCHANGED <<req, run, res, net, hd, batch, snd, gbm, panel>>

\* validateEncryptedData(encryptedData) of cryptoUtils.js.
ValidateEncryptedData ==
    /\ gui.pc = "sealed"
    /\ gui.module = "cryptoUtils"
    /\ gui.validation = NoValidation
    /\ gui' = [gui EXCEPT !.validation = validateEncryptedData(gui.inputEncryptedData)]
    /\ UNCHANGED <<req, run, res, net, hd, batch, snd, gbm, panel>>

\* EncryptionPanel.handleDecrypt up to its await: the two refusals, or
\* setDecrypting(true) and the call of decryptMnemonic.  targetPassword is
\* the decryptPassword or the password field, as the panel's mode says.
handleDecrypt(g, targetData, targetPassword) ==
    IF targetPassword = <<>>
    THEN [g EXCEPT !.alert = "enter the decryption password", !.last = "refused"]
    ELSE IF targetData = <<>>
    THEN [g EXCEPT !.alert = "enter the data to decrypt", !.last = "refused"]
    ELSE [g EXCEPT !.handler = "decryptMnemonic",
                   !.target = targetPassword,
                   !.decrypting = TRUE,
                   !.shown = g.decryptResult # <<>>]

HandleDecrypt ==
    /\ gui.pc = "sealed"
    /\ gui.module = "cryptoUtilsGUI"
    /\ gui.handler = "idle"
    /\ \E targetPassword \in Passwords :
         gui' = handleDecrypt(gui, gui.inputEncryptedData, targetPassword)
    /\ UNCHANGED <<req, run, res, net, hd, batch, snd, gbm, panel>>

\* handleDecryptSettled leaving the displayed result as it is on a failure.
handleDecryptSettledKeepsResult(g, result) ==
    IF result.ok
    THEN [g EXCEPT !.handler = "idle", !.decryptResult = result.value,
                   !.decrypting = FALSE, !.last = "ok"]
    ELSE [g EXCEPT !.handler = "idle",
                   !.alert = "decryption failed: wrong password or corrupted data",
                   !.decrypting = FALSE, !.last = "failed"]

\* handleDecrypt's try, catch and finally once decryptMnemonic has settled.
handleDecryptSettled(g, result) ==
    IF result.ok
    THEN [g EXCEPT !.handler = "idle", !.decryptResult = result.value,
                   !.decrypting = FALSE, !.last = "ok"]
    ELSE [g EXCEPT !.handler = "idle", !.decryptResult = <<>>,
                   !.alert = "decryption failed: wrong password or corrupted data",
                   !.decrypting = FALSE, !.last = "failed"]

HandleDecryptSettled ==
    /\ gui.handler = "decryptMnemonic"
    /\ LET result == decryptMnemonic(gui.module, gui.inputEncryptedData, gui.target)
       IN  gui' = [handleDecryptSettled(gui, result) EXCEPT
                     !.attempt = gui.target, !.outcome = result]
    /\ UNCHANGED <<req, run, res, net, hd, batch, snd, gbm, panel>>

\* The panel with a text and a password typed in.
InitCrypto ==
    /\ \E module \in Modules, mnemonic \in MnemonicInputs, password \in Passwords :
         gui = [IdleGui EXCEPT !.pc = "input", !.module = module,
                               !.mnemonic = mnemonic, !.password = password]
    /\ req = [r \in Runs |-> NoRequest]
    /\ run = [r \in Runs |-> IdleRun]
    /\ res = [r \in Runs |-> NoResponse]
    /\ net = [r \in Runs |-> IdleNet]
    /\ snd = IdleSenders
    /\ gbm = IdleGbm
    /\ panel = IdlePanel
    /\ hd = IdleHd
    /\ batch = IdleBatch

NextCrypto ==
    \/ EncryptMnemonic
    \/ Tamper
    \/ DecryptMnemonic
    \/ ValidateEncryptedData
    \/ HandleDecrypt
    \/ HandleDecryptSettled

SpecCrypto == InitCrypto /\ [][NextCrypto]_vars

\* --------------------------------------- generateMnemonic, address derivation
\* A mnemonic is the sequence of its words and a word the number 0..2047 of
\* its place in the BIP39 word list; the text '' is the sequence without
\* words.  Entropy, hashes and addresses are sequences of bytes.

\* The 11 bits of a word and the 8 bits of a byte, most significant first
\* (lpad(x.toString(2), '0', width)).
lpad(x, width) == [k \in 1..width |-> (x \div (2 ^ (width - k))) % 2]

RECURSIVE bytesToBinary(_)
bytesToBinary(bytes) ==
    IF bytes = <<>> THEN <<>> ELSE lpad(Head(bytes), 8) \o bytesToBinary(Tail(bytes))

RECURSIVE binaryToByte(_)
\* parseInt(bin, 2)
binaryToByte(bin) ==
    IF bin = <<>> THEN 0
    ELSE (2 * binaryToByte(SubSeq(bin, 1, Len(bin) - 1))) + bin[Len(bin)]

\* bits.match(/(.{1,width})/g): the pieces of `width` bits, the last one shorter
\* when the length is no multiple of the width.
chunks(bits, width) ==
    [k \in 1..((Len(bits) + width - 1) \div width) |->
        subarray(bits, width * (k - 1), width * k)]

RECURSIVE toHex(_)
\* entropy.toString('hex'): two digits 0..15 per byte.
toHex(bytes) ==
    IF bytes = <<>> THEN <<>>
    ELSE <<Head(bytes) \div 16, Head(bytes) % 16>> \o toHex(Tail(bytes))

\* Buffer.from(hex, 'hex')
fromHex(hex) == [k \in 1..(Len(hex) \div 2) |-> (16 * hex[(2 * k) - 1]) + hex[2 * k]]

\* createHash('sha256').update(data).digest(): 32 bytes determined by the data.
sha256(data) == [k \in 1..32 |-> Digest(data, k) % 256]

\* bip39's deriveChecksumBits: the first ENT / 32 bits of the hash.
deriveChecksumBits(entropy) ==
    subarray(bytesToBinary(sha256(entropy)), 0, (Len(entropy) * 8) \div 32)

\* What a library function delivers when it throws `message`.
Failed(message) == [ok |-> FALSE, value |-> <<>>, error |-> message]

\* bip39.entropyToMnemonic(hex): 16 to 32 bytes, a multiple of 4, and then one
\* word for every 11 bits of entropy followed by checksum.
entropyToMnemonic(hex) ==
    LET entropy == fromHex(hex)
    IN  IF Len(entropy) < 16 \/ Len(entropy) > 32 \/ Len(entropy) % 4 # 0
        THEN Failed("Invalid entropy")
        ELSE LET bits == bytesToBinary(entropy) \o deriveChecksumBits(entropy)
                 groups == chunks(bits, 11)
             IN  Returned([k \in DOMAIN groups |-> binaryToByte(groups[k])])

\* bip39.mnemonicToEntropy(mnemonic): the entropy of a mnemonic whose word
\* count is a multiple of 3, whose words are in the list and whose checksum is
\* the one of its entropy.
mnemonicToEntropy(mnemonic) ==
    IF mnemonic = <<>> \/ Len(mnemonic) % 3 # 0 THEN Failed("Invalid mnemonic")
    ELSE IF \E k \in DOMAIN mnemonic : mnemonic[k] \notin 0..2047
    THEN Failed("Invalid mnemonic")
    ELSE LET bits == [k \in 1..(11 * Len(mnemonic)) |->
                         lpad(mnemonic[((k - 1) \div 11) + 1], 11)[((k - 1) % 11) + 1]]
             dividerIndex == (Len(bits) \div 33) * 32
             entropyPart == subarray(bits, 0, dividerIndex)
             checksumBits == subarray(bits, dividerIndex, Len(bits))
             groups == chunks(entropyPart, 8)
             entropy == [k \in DOMAIN groups |-> binaryToByte(groups[k])]
         IN  IF Len(entropy) < 16 \/ Len(entropy) > 32 \/ Len(entropy) % 4 # 0
             THEN Failed("Invalid entropy")
             ELSE IF deriveChecksumBits(entropy) # checksumBits
             THEN Failed("Invalid checksum")
             ELSE Returned(entropy)

\* bip39.validateMnemonic(mnemonic) on a mnemonic given by its words.
bip39ValidateMnemonic(mnemonic) == mnemonicToEntropy(mnemonic).ok

\* What entropyBits[wordCount] finds that is no number: a member that the
\* object literal inherits from Object.prototype (a function or an object,
\* truthy and NaN in arithmetic), or nothing (undefined).
ObjectMember == -2

undefined == 0

ObjectPrototypeKeys == {"constructor", "toString", "valueOf", "hasOwnProperty", "__proto__"}

\* entropyBits[wordCount]: count is the property key String(wordCount).
entropyBits(count) ==
    CASE count = "12" -> 128
      [] count = "15" -> 160
      [] count = "18" -> 192
      [] count = "21" -> 224
      [] count = "24" -> 256
      [] count \in ObjectPrototypeKeys -> ObjectMember
      [] OTHER -> undefined

\* What randomBytes(bits / 8) and bip39's rng(strength / 8) may draw; NaN
\* bytes are no bytes.
Entropies(bits) == IF bits > 0 THEN RandomBytes(bits \div 8) ELSE {<<>>}

\* cryptoUtils.js generateMnemonic(wordCount) when randomBytes draws `entropy`.
cryptoUtils_generateMnemonic(count, entropy) ==
    LET bits == entropyBits(count)
    IN  IF bits = undefined
        THEN Thrown("mnemonic generation failed", "unsupported mnemonic length: " \o count)
        ELSE LET mnemonic == entropyToMnemonic(toHex(entropy))
             IN  IF ~mnemonic.ok THEN Thrown("mnemonic generation failed", mnemonic.error)
                 ELSE IF ~bip39ValidateMnemonic(mnemonic.value)
                 THEN Thrown("mnemonic generation failed", "generated mnemonic failed validation")
                 ELSE Returned(mnemonic.value)

\* bip39.generateMnemonic(strength) when its rng draws `entropy`.
bip39GenerateMnemonic(strength, entropy) ==
    IF strength = ObjectMember \/ strength % 32 # 0 THEN Failed("Invalid entropy")
    ELSE entropyToMnemonic(toHex(entropy))

\* cryptoUtilsGUI.js generateMnemonic(wordCount).
cryptoUtilsGUI_generateMnemonic(count, entropy) ==
    LET bits == entropyBits(count)
    IN  IF bits = undefined
        THEN Thrown("mnemonic generation failed", "unsupported mnemonic length: " \o count)
        ELSE LET mnemonic == bip39GenerateMnemonic(bits, entropy)
             IN  IF ~mnemonic.ok THEN Thrown("mnemonic generation failed", mnemonic.error)
                 ELSE IF ~bip39ValidateMnemonic(mnemonic.value)
                 THEN Thrown("mnemonic generation failed", "generated mnemonic failed validation")
                 ELSE Returned(mnemonic.value)

generateMnemonic(module, count, entropy) ==
    IF module = "cryptoUtils" THEN cryptoUtils_generateMnemonic(count, entropy)
    ELSE cryptoUtilsGUI_generateMnemonic(count, entropy)

\* The arguments generateMnemonic is given, as property keys: the supported
\* word counts, other numbers, parseInt's NaN and a name.
WordCountInputs == {"12", "15", "18", "21", "24", "0", "13", "NaN", "constructor"}

SupportedWordCounts == {"12", "15", "18", "21", "24"}

\* Number(wordCount) of a supported word count.
WordCountOf(count) ==
    CASE count = "12" -> 12 [] count = "15" -> 15 [] count = "18" -> 18
      [] count = "21" -> 21 [] count = "24" -> 24 [] OTHER -> NaN

\* generateMnemonic(wordCount) of hd.module, from the call to its result.
GenerateMnemonic ==
    /\ hd.pc = "input"
    /\ \E entropy \in Entropies(entropyBits(hd.wordCount)) :
         hd' = [hd EXCEPT !.pc = "generated",
                          !.entropy = entropy,
                          !.generated = generateMnemonic(hd.module, hd.wordCount, entropy)]
    /\ UNCHANGED <<req, run, res, net, gui, batch, snd, gbm, panel>>

\* The derivation paths in use: m/44'/60'/0'/0/0 and the next address index.
\* A hardened level is its index plus 2^31, here plus 1000.
DEFAULT_ETH_PATH == <<1044, 1060, 1000, 0, 0>>

DerivationPaths == {DEFAULT_ETH_PATH, <<1044, 1060, 1000, 0, 1>>}

\* ethers.HDNodeWallet.fromMnemonic(ethers.Mnemonic.fromPhrase(mnemonic), path)
\* .address: the seed is a function of the words, and every level of the path
\* derives the child key from its parent and the level's index.
hdWalletAddress(mnemonic, derivationPath) ==
    LET key == Digest(derivationPath, Digest(mnemonic, 13))
    IN  <<key \div 256, key % 256>>

\* generateEthereumAddress(mnemonic, derivationPath): the address of the
\* object it returns, or the Error it throws.
generateEthereumAddress(mnemonic, derivationPath) ==
    IF ~bip39ValidateMnemonic(mnemonic)
    THEN Thrown("address generation failed", "invalid mnemonic")
    ELSE Returned(hdWalletAddress(mnemonic, derivationPath))

\* validateAddressConsistency's loop: one derivation per attempt, compared
\* with the first address.
testResults(mnemonic, firstAddress, testCount) ==
    [i \in 1..testCount |->
        LET result == generateEthereumAddress(mnemonic, DEFAULT_ETH_PATH)
        IN  [attempt |-> i, address |-> result.value,
             matches |-> result.value = firstAddress]]

\* validateAddressConsistency derives attempt i at address index i.
validateAddressConsistencyNextIndex(mnemonic, testCount) ==
    IF ~bip39ValidateMnemonic(mnemonic)
    THEN [isConsistent |-> FALSE, thrown |-> FALSE, error |-> "invalid mnemonic",
          firstAddress |-> <<>>, testResults |-> <<>>]
    ELSE LET firstAddress == generateEthereumAddress(mnemonic, DEFAULT_ETH_PATH).value
             results == [i \in 1..testCount |->
                 LET result == generateEthereumAddress(mnemonic, <<1044, 1060, 1000, 0, i>>)
                 IN  [attempt |-> i, address |-> result.value,
                      matches |-> result.value = firstAddress]]
         IN  [isConsistent |-> \A i \in DOMAIN results : results[i].matches,
              thrown |-> FALSE, error |-> "",
              firstAddress |-> firstAddress, testResults |-> results]

\* validateAddressConsistency(mnemonic, testCount): the object it returns; it
\* catches every Error, so it never throws.
validateAddressConsistency(mnemonic, testCount) ==
    IF ~bip39ValidateMnemonic(mnemonic)
    THEN [isConsistent |-> FALSE, thrown |-> FALSE, error |-> "invalid mnemonic",
          firstAddress |-> <<>>, testResults |-> <<>>]
    ELSE LET first == generateEthereumAddress(mnemonic, DEFAULT_ETH_PATH)
         IN  IF ~first.ok
             THEN [isConsistent |-> FALSE, thrown |-> FALSE, error |-> first.error,
                   firstAddress |-> <<>>, testResults |-> <<>>]
             ELSE LET results == testResults(mnemonic, first.value, testCount)
                  IN  [isConsistent |-> \A i \in DOMAIN results : results[i].matches,
                       thrown |-> FALSE, error |-> "",
                       firstAddress |-> first.value, testResults |-> results]

\* The mnemonics the functions are given: the generated one, the same with
\* its last word replaced by the next word of the list, the same without its
\* last word, and the empty text.
MnemonicCandidates ==
    {<<>>} \cup
    ( IF ~hd.generated.ok THEN {}
      ELSE LET m == hd.generated.value
           IN  { m,
                 [m EXCEPT ![Len(m)] = (@ + 1) % 2048],
                 SubSeq(m, 1, Len(m) - 1) } )

\* validateAddressConsistency's testCount: 0 to MaxTests attempts.
TestCounts == 0..MaxTests

\* One call of generateEthereumAddress(mnemonic, derivationPath); a scenario
\* makes up to MaxCalls of them, or one call of validateAddressConsistency.
GenerateEthereumAddress ==
    /\ hd.pc = "generated"
    /\ hd.consistency = <<>>
    /\ Len(hd.derivations) < MaxCalls
    /\ \E mnemonic \in MnemonicCandidates, derivationPath \in DerivationPaths :
         hd' = [hd EXCEPT !.derivations = Append(@,
                    [mnemonic |-> mnemonic, path |-> derivationPath,
                     result |-> generateEthereumAddress(mnemonic, derivationPath)])]
    /\ UNCHANGED <<req, run, res, net, gui, batch, snd, gbm, panel>>

\* One call of validateAddressConsistency(mnemonic, testCount).
ValidateAddressConsistency ==
    /\ hd.pc = "generated"
    /\ hd.derivations = <<>>
    /\ hd.consistency = <<>>
    /\ \E mnemonic \in MnemonicCandidates, testCount \in TestCounts :
         hd' = [hd EXCEPT !.consistency = Append(@,
                    [mnemonic |-> mnemonic, testCount |-> testCount,
                     result |-> validateAddressConsistency(mnemonic, testCount)])]
    /\ UNCHANGED <<req, run, res, net, gui, batch, snd, gbm, panel>>

InitMnemonic ==
    /\ \E module \in Modules, count \in WordCountInputs :
         hd = [IdleHd EXCEPT !.pc = "input", !.module = module, !.wordCount = count]
    /\ req = [r \in Runs |-> NoRequest]
    /\ run = [r \in Runs |-> IdleRun]
    /\ res = [r \in Runs |-> NoResponse]
    /\ net = [r \in Runs |-> IdleNet]
    /\ snd = IdleSenders
    /\ gbm = IdleGbm
    /\ panel = IdlePanel
    /\ gui = IdleGui
    /\ batch = IdleBatch

NextMnemonic ==
    \/ GenerateMnemonic
    \/ GenerateEthereumAddress
    \/ ValidateAddressConsistency

SpecMnemonic == InitMnemonic /\ [][NextMnemonic]_vars

\* ------------------------------------------------- BatchProcessor.processBatch
\* The interval at which processBatch polls the pause flag, in ms.
POLL_MS == 100

\* Lines 210-219: processBatch returns batchResults to the handleStart that
\* awaits it.
processBatchReturn(b, k) ==
    [b EXCEPT !.proc[k].pc = "export", !.proc[k].returned = b.proc[k].batchResults]

\* Lines 140-153: the loop condition, the wait while paused, the stop check,
\* and the beginning of iteration i up to the await of generateMnemonic.
processBatchLoop(b, k) ==
    LET p == b.proc[k]
    IN  IF ~(p.i < b.batchSize) THEN processBatchReturn(b, k)
        ELSE IF b.pausedRef /\ b.processingRef
        THEN [b EXCEPT !.proc[k].pc = "poll", !.proc[k].timer = POLL_MS]
        ELSE IF ~b.processingRef THEN processBatchReturn(b, k)
        ELSE [b EXCEPT !.proc[k].pc = "generate", !.proc[k].timer = 0,
                       !.proc[k].started = Append(@, p.i)]

\* Lines 140 and 204-208: i++ after the body or after its catch.
processBatchNext(b, k) == processBatchLoop([b EXCEPT !.proc[k].i = @ + 1], k)

\* The timer of line 144 fired and the next index is taken.
processBatchPolledNextIndex(b, k) ==
    processBatchNext([b EXCEPT !.proc[k].polled = TRUE], k)

\* The timer of line 144 fired and the loop waits again whatever the refs hold.
processBatchPolledWaitsOn(b, k) == [b EXCEPT !.proc[k].polled = TRUE]

\* The timer of line 144 fired: the while condition is evaluated again.
processBatchPolled(b, k) ==
    processBatchLoop([b EXCEPT !.proc[k].polled = TRUE], k)

\* Lines 169-202: the address is derived, the result is pushed and copied into
\* the results state.
processBatchPush(b, k) ==
    LET result == [id |-> b.proc[k].i + 1, start |-> k]
        batchResults == Append(b.proc[k].batchResults, result)
    IN  [b EXCEPT !.proc[k].batchResults = batchResults, !.results = batchResults]

\* Lines 81-106: handleStart (the inputs are valid) up to the first await of
\* the processBatch it calls.  The start button is shown while not processing.
HandleStart(k) ==
    /\ ~batch.processing
    /\ batch.proc[k].pc = "off"
    /\ \A j \in 1..(k - 1) : batch.proc[j].pc # "off"
    /\ batch' = processBatchLoop(
                    [batch EXCEPT !.processing = TRUE, !.processingRef = TRUE,
                                  !.paused = FALSE, !.pausedRef = FALSE,
                                  !.results = <<>>], k)
    /\ UNCHANGED <<req, run, res, net, gui, hd, snd, gbm, panel>>

\* The 100 ms timer of the pause loop fired.
PollTimer(k) ==
    /\ batch.proc[k].pc = "poll"
    /\ batch' = processBatchPolled(batch, k)
    /\ UNCHANGED <<req, run, res, net, gui, hd, snd, gbm, panel>>

\* generateMnemonic settled: the mnemonic, or an Error for the catch of 204.
GenerateSettled(k) ==
    /\ batch.proc[k].pc = "generate"
    /\ \E ok \in BOOLEAN :
         batch' = IF ok THEN [batch EXCEPT !.proc[k].pc = "encrypt"]
                  ELSE processBatchNext(batch, k)
    /\ UNCHANGED <<req, run, res, net, gui, hd, snd, gbm, panel>>

\* encryptMnemonic settled: the envelope and the rest of the body, or an
\* Error for the catch of 204.
EncryptSettled(k) ==
    /\ batch.proc[k].pc = "encrypt"
    /\ \E ok \in BOOLEAN :
         batch' = IF ok THEN processBatchNext(processBatchPush(batch, k), k)
                  ELSE processBatchNext(batch, k)
    /\ UNCHANGED <<req, run, res, net, gui, hd, snd, gbm, panel>>

\* Lines 107-121: handleStart after processBatch returned: the export and the
\* finally block.
HandleStartSettled(k) ==
    /\ batch.proc[k].pc = "export"
    /\ batch' = [batch EXCEPT !.proc[k].pc = "done", !.processing = FALSE,
                              !.processingRef = FALSE, !.paused = FALSE]
    /\ UNCHANGED <<req, run, res, net, gui, hd, snd, gbm, panel>>

\* Lines 222-226; the pause button is shown while processing.
HandlePause ==
    /\ batch.processing
    /\ batch' = [batch EXCEPT !.paused = ~batch.paused, !.pausedRef = ~batch.paused]
    /\ UNCHANGED <<req, run, res, net, gui, hd, snd, gbm, panel>>

\* An invocation whose processBatch has not returned.
InBatch(p) == p.pc \in {"poll", "generate", "encrypt"}

\* Lines 228-235; the stop button is shown while processing.  Every
\* processBatch that has not returned notes what it had done by then.
HandleStop ==
    /\ batch.processing
    /\ batch' = [batch EXCEPT
           !.processing = FALSE, !.processingRef = FALSE,
           !.paused = FALSE, !.pausedRef = FALSE,
           !.proc = [k \in Starts |->
               IF InBatch(batch.proc[k]) /\ ~batch.proc[k].stopped
               THEN [batch.proc[k] EXCEPT !.stopped = TRUE,
                                          !.startedAtStop = Len(batch.proc[k].started),
                                          !.pausedAtStop = batch.proc[k].pc = "poll",
                                          !.atStop = batch.proc[k].batchResults]
               ELSE batch.proc[k]]]
    /\ UNCHANGED <<req, run, res, net, gui, hd, snd, gbm, panel>>

InitBatch ==
    /\ \E batchSize \in 1..MaxBatch : batch = [IdleBatch EXCEPT !.batchSize = batchSize]
    /\ req = [r \in Runs |-> NoRequest]
    /\ run = [r \in Runs |-> IdleRun]
    /\ res = [r \in Runs |-> NoResponse]
    /\ net = [r \in Runs |-> IdleNet]
    /\ snd = IdleSenders
    /\ gbm = IdleGbm
    /\ panel = IdlePanel
    /\ gui = IdleGui
    /\ hd = IdleHd

NextBatch ==
    \/ HandlePause
    \/ HandleStop
    \/ \E k \in Starts :
         \/ HandleStart(k)
         \/ PollTimer(k)
         \/ GenerateSettled(k)
         \/ EncryptSettled(k)
         \/ HandleStartSettled(k)

SpecBatch == InitBatch /\ [][NextBatch]_vars

\* The component when every timer that was set fires and every promise that
\* is awaited settles; the clicks of the user are under no obligation.
BatchFairness ==
    \A k \in Starts :
        /\ WF_vars(PollTimer(k))
        /\ WF_vars(GenerateSettled(k))
        /\ WF_vars(EncryptSettled(k))
        /\ WF_vars(HandleStartSettled(k))

SpecBatchLive == InitBatch /\ [][NextBatch]_vars /\ BatchFairness

\* --------------------------------------------------- the three batch senders
\* The gas limit the browser sender and the serverless handler pass.
TRANSFER_GAS_LIMIT == 21000

\* An error that both classifiers accept.
StaleAndInFlight ==
    [code |-> "NONCE_EXPIRED", message |-> {"in-flight transaction limit"}]

SenderErrors == Errors \cup {StaleAndInFlight}

\* GasBatchManager.handleBatchSend, direct path (part_001 lines 483-577): what
\* the sender does when the await it is suspended at (s.pc) settles with
\* `error` (NoError: it resolved, to `got` for a getTransactionCount), up to
\* its next await.  Its log is the sendLogs state.
handleBatchSend(s, error, got) ==
    LET ok == error = NoError
        \* lines 573-575: the catch around the whole flow
        flowFailed(t) ==
            Return([t EXCEPT !.logs = Append(@, [kind |-> "flow", item |-> 0, hash |-> 0])])
        loop(t) ==
            IF t.i < Len(t.recipients)
            THEN Submit([t EXCEPT !.gasLimit = TRANSFER_GAS_LIMIT], "sendTransaction")
            ELSE Return(t)
        \* lines 568-570
        after(t) ==
            IF t.i < Len(t.recipients) - 1
            THEN Await(t, "delay", [Call("delay") EXCEPT !.ms = delay(t.delayMs)])
            ELSE loop([t EXCEPT !.i = @ + 1])
        submitted(t, kind, attempt, waitPc) ==
            LET hash == Hash(t.i, attempt)
                t1 == Push([t EXCEPT !.nextNonce = @ + 1, !.lastSubmittedHash = hash],
                           kind, hash)
            IN  IF t.waitConfirm
                THEN Await(t1, waitPc, [Call("wait") EXCEPT !.hash = hash])
                ELSE after(t1)
        failed(t) == after(Push(t, "failed", 0))
        \* lines 507-566: the catch of the first try block
        catch(t) ==
            IF isNonceError(error) THEN Refetch(t)
            ELSE IF isInFlightLimitError(error)
            THEN LET t1 == Push(t, "waiting", 0)
                 IN  IF t.lastSubmittedHash # 0
                     THEN Await(t1, "waitForTransaction",
                                [Call("waitForTransaction") EXCEPT
                                    !.hash = t.lastSubmittedHash])
                     ELSE Await(t1, "backoff",
                                [Call("delay") EXCEPT
                                    !.ms = delay(MathMax(t.delayMs, MIN_BACKOFF_MS))])
            ELSE failed(t)
    IN  CASE s.pc = "getFeeData" ->
               IF ok THEN Await(s, "getTransactionCount", Call("getTransactionCount"))
               ELSE flowFailed(s)
          [] s.pc = "getTransactionCount" ->
               IF ok THEN loop([s EXCEPT !.nextNonce = got, !.lastSubmittedHash = 0, !.i = 0])
               ELSE flowFailed(s)
          [] s.pc = "sendTransaction" ->
               IF ok THEN submitted(s, "submitted", 1, "wait") ELSE catch(s)
          [] s.pc = "wait" ->
               IF ok THEN after(Push(s, "confirmed", 0)) ELSE catch(s)
          [] s.pc = "waitForTransaction" -> IF ok THEN Refetch(s) ELSE failed(s)
          [] s.pc = "backoff" -> Refetch(s)
          [] s.pc = "retryGetTransactionCount" ->
               IF ok THEN Submit([s EXCEPT !.nextNonce = got], "retrySendTransaction")
               ELSE failed(s)
          [] s.pc = "retrySendTransaction" ->
               IF ok THEN submitted(s, "retried", 2, "retryWait") ELSE failed(s)
          [] s.pc = "retryWait" ->
               IF ok THEN after(Push(s, "confirmed", 0)) ELSE failed(s)
          [] s.pc = "delay" -> loop([s EXCEPT !.i = @ + 1])
          [] OTHER -> s

\* The serverless api/send-batch handler (SimpleApp.js lines 270-341): what it
\* does when the await it is suspended at settles, up to its next await.  Its
\* log is the logs array of its response; an error that leaves it is answered
\* with status 500 and no logs.
apiSendBatch(s, error, got) ==
    LET ok == error = NoError
        loop(t) ==
            IF t.i < Len(t.recipients)
            THEN Submit([t EXCEPT !.gasLimit = TRANSFER_GAS_LIMIT], "sendTransaction")
            ELSE Return(t)
        \* lines 329-331: the spacing
        after(t) ==
            IF t.i < Len(t.recipients) - 1 /\ t.delayMs # NaN /\ t.delayMs > 0
            THEN Await(t, "delay", [Call("delay") EXCEPT !.ms = delay(t.delayMs)])
            ELSE loop([t EXCEPT !.i = @ + 1])
        submitted(t, kind, attempt, waitPc) ==
            LET hash == Hash(t.i, attempt)
                t1 == Push([t EXCEPT !.nextNonce = @ + 1, !.lastSubmittedHash = hash],
                           kind, hash)
            IN  IF t.waitConfirm
                THEN Await(t1, waitPc, [Call("wait") EXCEPT !.hash = hash])
                ELSE after(t1)
        failed(t) == after(Push(t, "failed", 0))
        \* lines 296-328: the catch of the first try block
        catch(t) ==
            IF isNonceError(error) \/ isInFlightLimitError(error)
            THEN IF isInFlightLimitError(error)
                 THEN LET t1 == Push(t, "waiting", 0)
                      IN  IF t.lastSubmittedHash # 0
                          THEN Await(t1, "waitForTransaction",
                                     [Call("waitForTransaction") EXCEPT
                                         !.hash = t.lastSubmittedHash])
                          ELSE Await(t1, "backoff",
                                     [Call("delay") EXCEPT
                                         !.ms = delay(MathMax(t.delayMs, MIN_BACKOFF_MS))])
                 ELSE Refetch(t)
            ELSE failed(t)
    IN  CASE s.pc = "getFeeData" ->
               IF ok THEN Await(s, "getTransactionCount", Call("getTransactionCount"))
               ELSE Throw(s, "getFeeData")
          [] s.pc = "getTransactionCount" ->
               IF ok THEN loop([s EXCEPT !.nextNonce = got, !.lastSubmittedHash = 0, !.i = 0])
               ELSE Throw(s, "getTransactionCount")
          [] s.pc = "sendTransaction" ->
               IF ok THEN submitted(s, "submitted", 1, "wait") ELSE catch(s)
          [] s.pc = "wait" ->
               IF ok THEN after(Push(s, "confirmed", 0)) ELSE catch(s)
          [] s.pc = "waitForTransaction" -> IF ok THEN Refetch(s) ELSE failed(s)
          [] s.pc = "backoff" -> Refetch(s)
          [] s.pc = "retryGetTransactionCount" ->
               IF ok THEN Submit([s EXCEPT !.nextNonce = got], "retrySendTransaction")
               ELSE failed(s)
          [] s.pc = "retrySendTransaction" ->
               IF ok THEN submitted(s, "retried", 2, "retryWait") ELSE failed(s)
          [] s.pc = "retryWait" ->
               IF ok THEN after(Push(s, "confirmed", 0)) ELSE failed(s)
          [] s.pc = "delay" -> loop([s EXCEPT !.i = @ + 1])
          [] OTHER -> s

\* tx-server.js handleSendBatch (lines 137-207): what it does when the await it
\* is suspended at settles, up to its next await.
handleSendBatch(s, error, got) ==
    LET ok == error = NoError
    IN  CASE s.pc = "getFeeData" ->
               IF ok THEN SendBatchFees(s, [maxFeePerGas |-> 200, gasPrice |-> 100,
                                            maxPriorityFeePerGas |-> 10])
               ELSE Throw(s, "getFeeData")
          [] s.pc = "getTransactionCount" ->
               IF ok THEN SendBatchNonce(s, got) ELSE Throw(s, "getTransactionCount")
          [] s.pc = "estimateGas" ->
               Submit([s EXCEPT !.gasLimit = IF ok THEN addGasBuffer(TRANSFER_GAS_LIMIT)
                                             ELSE GAS_LIMIT_FALLBACK],
                      "sendTransaction")
          [] s.pc = "sendTransaction" ->
               IF ok THEN Submitted(s, "submitted", 1, "wait") ELSE Catch(s, error)
          [] s.pc = "wait" ->
               IF ok THEN AfterRecipient(Push(s, "confirmed", 0)) ELSE Catch(s, error)
          [] s.pc = "waitForTransaction" -> IF ok THEN Refetch(s) ELSE CatchRetry(s)
          [] s.pc = "backoff" -> Refetch(s)
          [] s.pc = "retryGetTransactionCount" ->
               IF ok THEN Refetched(s, got) ELSE CatchRetry(s)
          [] s.pc = "retrySendTransaction" ->
               IF ok THEN Submitted(s, "retried", 2, "retryWait") ELSE CatchRetry(s)
          [] s.pc = "retryWait" ->
               IF ok THEN AfterRecipient(Push(s, "confirmed", 0)) ELSE CatchRetry(s)
          [] s.pc = "delay" -> NextRecipient(s)
          [] OTHER -> s

\* The batch the three senders are given: its valid recipient addresses, the
\* amount, waitConfirm and a positive delay; each sender has passed its checks
\* and awaits getFeeData.
SenderStart(n, waitConfirm) ==
    Await([IdleRun EXCEPT !.handler = "send",
                          !.recipients = [k \in 1..n |-> "address"],
                          !.amountEth = "0.0001",
                          !.value = parseEther("0.0001"),
                          !.delayMs = NumberOrZero("3000"),
                          !.waitConfirm = waitConfirm,
                          !.wallet = FUNDING_ADDRESS],
          "getFeeData", Call("getFeeData"))

Finished(s) == s.pc \in {"done", "thrown"}

\* A call is told by the await it is made at and by the recipient it is made
\* for.  The network answers a call that another sender has made before in
\* the same way; a call that no sender has made yet resolves, or is rejected
\* while the fault budget lasts.
Answers(s) ==
    LET known == {a \in snd.answers : a.pc = s.pc /\ a.i = s.i}
        faults == Cardinality({a \in snd.answers : a.error # NoError})
        fetches == s.pc \in {"getTransactionCount", "retryGetTransactionCount"}
    IN  IF s.pc \in {"delay", "backoff"}
        THEN {[pc |-> s.pc, i |-> s.i, error |-> NoError, got |-> 0]}
        ELSE IF known # {} THEN known
        ELSE {[pc |-> s.pc, i |-> s.i, error |-> NoError, got |-> n] :
                 n \in IF fetches THEN PendingNonces ELSE {0}}
             \cup {[pc |-> s.pc, i |-> s.i, error |-> e, got |-> 0] :
                      e \in IF faults < MaxFaults THEN SenderErrors ELSE {}}

\* Sender k takes its next step once the senders before it have finished.
SenderStep(k, s2, a) ==
    /\ snd' = [snd EXCEPT
          !.s[k] = s2,
          !.txs[k] = IF s2.call.op = "sendTransaction"
                     THEN Append(@, [to |-> s2.call.to, nonce |-> s2.call.nonce])
                     ELSE @,
          !.answers = IF a.pc \in {"delay", "backoff"} THEN @ ELSE @ \cup {a}]
    /\ UNCHANGED <<req, run, res, net, gui, hd, batch, gbm, panel>>

Turn(k) ==
    /\ ~Finished(snd.s[k])
    /\ \A j \in 1..(k - 1) : Finished(snd.s[j])

HandleBatchSendStep ==
    /\ Turn(1)
    /\ \E a \in Answers(snd.s[1]) :
         SenderStep(1, handleBatchSend(snd.s[1], a.error, a.got), a)

ApiSendBatchStep ==
    /\ Turn(2)
    /\ \E a \in Answers(snd.s[2]) :
         SenderStep(2, apiSendBatch(snd.s[2], a.error, a.got), a)

HandleSendBatchStep ==
    /\ Turn(3)
    /\ \E a \in Answers(snd.s[3]) :
         SenderStep(3, handleSendBatch(snd.s[3], a.error, a.got), a)

InitSenders ==
    /\ \E n \in 1..MaxItems, waitConfirm \in BOOLEAN :
          snd = [IdleSenders EXCEPT
                    !.s = [k \in DOMAIN SenderOrder |-> SenderStart(n, waitConfirm)]]
    /\ req = [r \in Runs |-> NoRequest]
    /\ run = [r \in Runs |-> IdleRun]
    /\ res = [r \in Runs |-> NoResponse]
    /\ net = [r \in Runs |-> IdleNet]
    /\ gui = IdleGui
    /\ hd = IdleHd
    /\ batch = IdleBatch
    /\ gbm = IdleGbm
    /\ panel = IdlePanel

NextSenders == HandleBatchSendStep \/ ApiSendBatchStep \/ HandleSendBatchStep

SpecSenders == InitSenders /\ [][NextSenders]_vars

\* ------------------------------------------- GasBatchManager.handleDecrypt

\* The private key of the wallet at a derivation path, and the address of the
\* wallet of a private key (hdWalletAddress is the one of the other).
hdWalletPrivateKey(mnemonic, derivationPath) ==
    <<Digest(derivationPath, Digest(mnemonic, 13))>>

\* new ethers.Wallet(privateKey): the wallet, or the Error for a key that is
\* not a number of the group.
Wallet(privateKey) ==
    IF Len(privateKey) # 1 \/ privateKey[1] <= 0
    THEN Failed("invalid private key")
    ELSE Returned([address |-> <<privateKey[1] \div 256, privateKey[1] % 256>>,
                   privateKey |-> privateKey])

\* What decryptMnemonic can resolve with: it validates what it decrypted, so
\* mnemonics that entropyToMnemonic produces.
DecryptableMnemonics ==
    { entropyToMnemonic(toHex(entropy)).value : entropy \in RandomBytes(16) }

\* What the awaited decryptMnemonic(item.encryptedData, decryptPassword)
\* settles with.
DecryptOutcomes ==
    { Returned(mnemonic) : mnemonic \in DecryptableMnemonics }
        \cup {Thrown("decrypt failed", "OperationError")}

\* The rows of a CSV as parseEncryptedCsv keeps them (a row has encrypted
\* data or a private key): the address column is empty, the address of the
\* mnemonic on the default path, or its address on another path.
CsvMnemonic == CHOOSE mnemonic \in DecryptableMnemonics : TRUE

CsvRows ==
    LET onPath == hdWalletAddress(CsvMnemonic, DEFAULT_ETH_PATH)
        offPath == hdWalletAddress(CsvMnemonic, <<1044, 1060, 1000, 0, 1>>)
        key == hdWalletPrivateKey(CsvMnemonic, DEFAULT_ETH_PATH)
    IN  { [encryptedData |-> "envelope", address |-> a, privateKey |-> <<>>]
              : a \in {<<>>, onPath, offPath} }
        \cup { [encryptedData |-> "envelope", address |-> offPath, privateKey |-> key],
               [encryptedData |-> "", address |-> <<>>, privateKey |-> key],
               [encryptedData |-> "", address |-> offPath, privateKey |-> key],
               [encryptedData |-> "", address |-> onPath, privateKey |-> <<0>>] }

\* handleDecrypt if an address that differs from the recorded one were an
\* error of the item.
handleDecryptEntryRejectsMismatch(g, item, mnemonic) ==
    LET derived == IF mnemonic # <<>>
                   THEN generateEthereumAddress(mnemonic, DEFAULT_ETH_PATH)
                   ELSE Wallet(item.privateKey)
        address == IF mnemonic # <<>> THEN derived.value ELSE derived.value.address
    IN  IF ~derived.ok \/ (item.address # <<>> /\ item.address # address)
        THEN [g EXCEPT !.errors = Append(@, [id |-> item.id, message |-> "mismatch"])]
        ELSE [g EXCEPT !.results = Append(@,
                [ id |-> item.id,
                  encryptedData |-> item.encryptedData,
                  address |-> address,
                  sourceAddress |-> item.address,
                  mnemonic |-> mnemonic,
                  privateKey |-> IF mnemonic # <<>>
                                 THEN hdWalletPrivateKey(mnemonic, DEFAULT_ETH_PATH)
                                 ELSE item.privateKey,
                  mismatch |-> FALSE ])]

\* Lines 313-340: the rest of the try block once the mnemonic is known ('' for
\* an item without encrypted data): the entry pushed to results, or the
\* message pushed to errors by the catch.  mismatch is the truthiness of the
\* && chain, which is what the render tests.
handleDecryptEntry(g, item, mnemonic) ==
    LET derived == IF mnemonic # <<>>
                   THEN generateEthereumAddress(mnemonic, DEFAULT_ETH_PATH)
                   ELSE IF item.privateKey # <<>> THEN Wallet(item.privateKey)
                   ELSE Returned(null)
        hasInfo == mnemonic # <<>> \/ item.privateKey # <<>>
        address == IF mnemonic # <<>> THEN derived.value ELSE derived.value.address
        privateKey == IF mnemonic # <<>>
                      THEN hdWalletPrivateKey(mnemonic, DEFAULT_ETH_PATH)
                      ELSE derived.value.privateKey
    IN  IF ~derived.ok
        THEN [g EXCEPT !.errors = Append(@, [id |-> item.id, message |-> derived.error])]
        ELSE [g EXCEPT !.results = Append(@,
                [ id |-> item.id,
                  encryptedData |-> item.encryptedData,
                  address |-> IF hasInfo /\ address # <<>> THEN address ELSE item.address,
                  sourceAddress |-> item.address,
                  mnemonic |-> mnemonic,
                  privateKey |-> IF hasInfo /\ privateKey # <<>> THEN privateKey
                                 ELSE item.privateKey,
                  mismatch |-> /\ item.address # <<>>
                               /\ hasInfo /\ address # <<>>
                               /\ item.address # address ])]

\* Line 343: Math.round(((i + 1) / encryptedItems.length) * 100).
handleDecryptProgress(g) ==
    [g EXCEPT !.decryptProgress =
        ((200 * (g.i + 1)) + Len(g.encryptedItems)) \div (2 * Len(g.encryptedItems))]

\* Lines 346-349: after the loop.
handleDecryptFinish(g) ==
    [g EXCEPT !.pc = "idle", !.last = "finished",
              !.decryptedItems = g.results,
              !.selectedIds = [k \in DOMAIN g.results |-> g.results[k].id],
              !.decryptErrors = g.errors,
              !.decrypting = FALSE]

RECURSIVE handleDecryptLoop(_)
\* Lines 312-344: the loop from the test of i to the next await; an item
\* without encrypted data is handled without one.
handleDecryptLoop(g) ==
    IF g.i >= Len(g.encryptedItems) THEN handleDecryptFinish(g)
    ELSE LET item == g.encryptedItems[g.i + 1]
         IN  IF item.encryptedData # ""
             THEN [g EXCEPT !.pc = "decryptMnemonic"]
             ELSE handleDecryptLoop(
                    [handleDecryptProgress(handleDecryptEntry(g, item, <<>>))
                        EXCEPT !.i = @ + 1])

\* The catch at lines 339-341 when decryptMnemonic rejects.
handleDecryptCatchStops(g, item, error) ==
    [g EXCEPT !.errors = Append(@, [id |-> item.id, message |-> error]),
              !.i = Len(g.encryptedItems) - 1]

handleDecryptCatch(g, item, error) ==
    [g EXCEPT !.errors = Append(@, [id |-> item.id, message |-> error])]

\* Lines 318-344 from the settling of decryptMnemonic on.
GasBatchManager_handleDecryptSettled(g, outcome) ==
    LET item == g.encryptedItems[g.i + 1]
        tried == IF outcome.ok THEN handleDecryptEntry(g, item, outcome.value)
                 ELSE handleDecryptCatch(g, item, outcome.error)
    IN  handleDecryptLoop(
          [handleDecryptProgress(tried) EXCEPT
              !.i = @ + 1,
              !.delivered = Append(@, [id |-> item.id, outcome |-> outcome])])

\* Lines 296-344 up to the first await.
GasBatchManager_handleDecrypt(g) ==
    IF g.decryptPassword = ""
    THEN [g EXCEPT !.decryptErrors = <<"enter the password">>, !.last = "refused"]
    ELSE IF Len(g.encryptedItems) = 0
    THEN [g EXCEPT !.decryptErrors = <<"upload a CSV first">>, !.last = "refused"]
    ELSE handleDecryptLoop(
           [g EXCEPT !.decrypting = TRUE, !.decryptErrors = <<>>,
                     !.decryptProgress = 0,
                     !.i = 0, !.results = <<>>, !.errors = <<>>,
                     !.delivered = <<>>])

\* A click on the decrypt button, which is disabled while decrypting.
GbmHandleDecrypt ==
    /\ gbm.pc = "idle"
    /\ ~gbm.decrypting
    /\ gbm.last = "none"
    /\ gbm' = GasBatchManager_handleDecrypt(gbm)
    /\ UNCHANGED <<req, run, res, net, gui, hd, batch, snd, panel>>

GbmDecryptSettled ==
    /\ gbm.pc = "decryptMnemonic"
    /\ \E outcome \in DecryptOutcomes :
         gbm' = GasBatchManager_handleDecryptSettled(gbm, outcome)
    /\ UNCHANGED <<req, run, res, net, gui, hd, batch, snd, panel>>

\* The component once the user has typed a password (or none) and loaded a
\* CSV: ids are the row numbers, so they grow by one from the first kept row.
InitGbm ==
    /\ \E n \in 0..MaxItems, first \in 1..2, decryptPassword \in {"", "p1"} :
         \E rows \in [1..n -> CsvRows] :
            gbm = [IdleGbm EXCEPT
                     !.pc = "idle",
                     !.decryptPassword = decryptPassword,
                     !.encryptedItems =
                        [k \in 1..n |->
                            [ id |-> first + k - 1,
                              encryptedData |-> rows[k].encryptedData,
                              address |-> rows[k].address,
                              privateKey |-> rows[k].privateKey ]]]
    /\ req = [r \in Runs |-> NoRequest]
    /\ run = [r \in Runs |-> IdleRun]
    /\ res = [r \in Runs |-> NoResponse]
    /\ net = [r \in Runs |-> IdleNet]
    /\ snd = IdleSenders
    /\ panel = IdlePanel
    /\ gui = IdleGui
    /\ hd = IdleHd
    /\ batch = IdleBatch

NextGbm == GbmHandleDecrypt \/ GbmDecryptSettled

SpecGbm == InitGbm /\ [][NextGbm]_vars

\* ------------------------------------------- EncryptionPanel.handleEncrypt

\* text.trim(), text.split(/\s+/) of a trimmed text, and words.join(' ').
trim(text) ==
    LET inked == {k \in DOMAIN text : text[k] # SPACE}
    IN  IF inked = {} THEN <<>>
        ELSE SubSeq(text, CHOOSE k \in inked : \A j \in inked : k <= j,
                          CHOOSE k \in inked : \A j \in inked : k >= j)

splitWhitespace(text) == SelectSeq(split(text, SPACE), LAMBDA word : word # <<>>)

RECURSIVE joinWords(_)
joinWords(words) ==
    IF Len(words) = 0 THEN <<>>
    ELSE IF Len(words) = 1 THEN words[1]
    ELSE words[1] \o <<SPACE>> \o joinWords(Tail(words))

\* checkPasswordStrength(pwd).score: one point each for eight characters, a
\* lowercase letter, an uppercase letter, a digit and any other character.
checkPasswordStrength(pwd) ==
    LET has(S) == IF \E k \in DOMAIN pwd : pwd[k] \in S THEN 1 ELSE 0
    IN  (IF Len(pwd) >= 8 THEN 1 ELSE 0)
        + has(97..122) + has(65..90) + has(48..57)
        + has((0..255) \ ((97..122) \cup (65..90) \cup (48..57)))

\* What the awaited encryptMnemonic(mnemonicText, password) settles with: the
\* envelope for the salt and iv it drew or the Error it throws, or the
\* rejection of a WebCrypto operation.
EncryptOutcomes(mnemonicText, password) ==
    { cryptoUtilsGUI_encryptMnemonic(mnemonicText, password, salt, iv) :
          salt \in RandomBytes(16), iv \in RandomBytes(12) }
        \cup {Thrown("encrypt failed", "OperationError")}

\* Lines 782-812 from the head of the for-of loop on: the next await, or
\* the results stored, the timer set and the finally block.
handleEncryptLoop(p) ==
    IF Len(p.results) < Len(p.targetMnemonics)
    THEN [p EXCEPT !.pc = "encryptMnemonic"]
    ELSE [p EXCEPT !.pc = "idle", !.last = "stored",
                   !.encryptedResults = p.results,
                   !.timer = TRUE,
                   !.encrypting = FALSE]

\* handleEncrypt if its catch kept what had been encrypted so far.
handleEncryptCatchStoresPartial(p, error) ==
    [p EXCEPT !.pc = "idle", !.last = "failed",
              !.encryptedResults = p.results,
              !.alert = "encrypt failed: " \o error,
              !.encrypting = FALSE]

\* Lines 814-819: the catch and the finally block.
handleEncryptCatch(p, error) ==
    [p EXCEPT !.pc = "idle", !.last = "failed",
              !.alert = "encrypt failed: " \o error,
              !.encrypting = FALSE]

\* Lines 789-801 from the settling of encryptMnemonic on; originalId is the
\* target's position among the targets.
handleEncryptSettled(p, outcome) ==
    IF ~outcome.ok THEN handleEncryptCatch(p, outcome.error)
    ELSE handleEncryptLoop(
           [p EXCEPT !.results = Append(@,
               [ originalId |-> Len(p.results) + 1,
                 encryptedData |-> outcome.value,
                 wordCount |->
                    Len(splitWhitespace(p.targetMnemonics[Len(p.results) + 1])) ])])

\* Lines 748-788 up to the first await; confirmed is the answer to
\* window.confirm, which is asked for a password of score below 3.
handleEncrypt(p, confirmed) ==
    LET refused(message) == [p EXCEPT !.alert = message, !.last = "refused"]
        targetMnemonics ==
            IF trim(p.inputMnemonic) # <<>>
            THEN <<joinWords(splitWhitespace(trim(p.inputMnemonic)))>>
            ELSE p.mnemonics
    IN  IF p.password = <<>> THEN refused("enter the password")
        ELSE IF p.password # p.confirmPassword THEN refused("the passwords differ")
        ELSE IF checkPasswordStrength(p.password) < 3 /\ ~confirmed
        THEN [p EXCEPT !.last = "refused"]
        ELSE IF targetMnemonics = <<>> THEN refused("generate or enter a mnemonic first")
        ELSE handleEncryptLoop(
               [p EXCEPT !.encrypting = TRUE,
                         !.targetMnemonics = targetMnemonics,
                         !.secret = p.password,
                         !.results = <<>>,
                         !.before = p.encryptedResults])

\* A click on the encrypt button, which is disabled while encrypting, without
\* a password or its confirmation, and without anything to encrypt.
PanelHandleEncrypt ==
    /\ panel.pc = "idle"
    /\ panel.last = "none"
    /\ ~panel.encrypting
    /\ ~(panel.mnemonics = <<>> /\ panel.inputMnemonic = <<>>)
    /\ panel.password # <<>> /\ panel.confirmPassword # <<>>
    /\ \E confirmed \in BOOLEAN : panel' = handleEncrypt(panel, confirmed)
    /\ UNCHANGED <<req, run, res, net, gui, hd, batch, snd, gbm>>

PanelEncryptSettled ==
    /\ panel.pc = "encryptMnemonic"
    /\ \E outcome \in EncryptOutcomes(panel.targetMnemonics[Len(panel.results) + 1],
                                      panel.secret) :
         panel' = handleEncryptSettled(panel, outcome)
    /\ UNCHANGED <<req, run, res, net, gui, hd, batch, snd, gbm>>

\* Lines 808-812: the timer set after the results were stored.
PanelClearInputs ==
    /\ panel.timer
    /\ panel' = [panel EXCEPT !.timer = FALSE,
                              !.password = <<>>,
                              !.confirmPassword = <<>>,
                              !.inputMnemonic = <<>>]
    /\ UNCHANGED <<req, run, res, net, gui, hd, batch, snd, gbm>>

\* The mnemonics the panel may be handed ("a b b", "c d b", and "a b c", which
\* is none), what may be typed into its mnemonic field, and its passwords
\* ("p1", "aA1!").
PanelMnemonics ==
    { <<97, 32, 98, 32, 98>>, <<99, 32, 100, 32, 98>>, <<97, 32, 98, 32, 99>> }

PanelInputs ==
    { <<>>, <<32>>, <<32, 97, 32, 32, 98, 32, 98>>, <<97, 32, 98, 32, 99>> }

PanelPasswords == { <<112, 49>>, <<97, 65, 49, 33>> }

\* The results of an earlier encryption.
EarlierResults ==
    LET salt == CHOOSE s \in RandomBytes(16) : TRUE
        iv == CHOOSE s \in RandomBytes(12) : TRUE
    IN  << [ originalId |-> 1,
             encryptedData |->
                cryptoUtilsGUI_encryptMnemonic(<<99, 32, 100, 32, 98>>, <<112, 49>>,
                                               salt, iv).value,
             wordCount |-> 3 ] >>

\* The panel once the user has typed the passwords and, or not, a mnemonic,
\* with the mnemonics generated so far and the results of an earlier
\* encryption, if any.
InitPanel ==
    /\ \E n \in 0..MaxItems, password \in PanelPasswords,
          confirmPassword \in PanelPasswords, inputMnemonic \in PanelInputs,
          encryptedResults \in {<<>>, EarlierResults} :
         \E mnemonics \in [1..n -> PanelMnemonics] :
            panel = [IdlePanel EXCEPT
                       !.pc = "idle",
                       !.mnemonics = mnemonics,
                       !.encryptedResults = encryptedResults,
                       !.password = password,
                       !.confirmPassword = confirmPassword,
                       !.inputMnemonic = inputMnemonic]
    /\ req = [r \in Runs |-> NoRequest]
    /\ run = [r \in Runs |-> IdleRun]
    /\ res = [r \in Runs |-> NoResponse]
    /\ net = [r \in Runs |-> IdleNet]
    /\ snd = IdleSenders
    /\ gbm = IdleGbm
    /\ gui = IdleGui
    /\ hd = IdleHd
    /\ batch = IdleBatch

NextPanel == PanelHandleEncrypt \/ PanelEncryptSettled \/ PanelClearInputs

SpecPanel == InitPanel /\ [][NextPanel]_vars

\* ------------------------------------------------------------ specification
EntryInputs ==
    { [isArray |-> FALSE, items |-> <<>>] }
    \cup { [isArray |-> TRUE, items |-> q] : q \in SeqsUpTo(EntryKinds, MaxItems) }

ReclaimPayloads ==
    [ rpcUrl : {"", "http://rpc"},
      entries : EntryInputs,
      reserveEth : ReserveInputs,
      delayMs : DelayInputs,
      waitConfirm : BOOLEAN,
      reclaimAddress : {"", "0xRECLAIM"} ]

RecipientInputs ==
    { [isArray |-> FALSE, items |-> <<>>] }
    \cup { [isArray |-> TRUE, items |-> q] : q \in SeqsUpTo(RecipientKinds, MaxItems) }

SendPayloads ==
    [ rpcUrl : {"", "http://rpc"},
      recipients : RecipientInputs,
      amountEth : AmountInputs,
      delayMs : DelayInputs,
      waitConfirm : BOOLEAN,
      fundingSecret : SecretInputs ]

Requests ==
    { [url |-> "/api/send-batch", payload |-> p] : p \in SendPayloads }
    \cup { [url |-> "/api/reclaim-batch", payload |-> p] : p \in ReclaimPayloads }

\* The server with one request to handle.
Init ==
    /\ \E q \in Requests : req = [r \in Runs |-> IF r = 1 THEN q ELSE NoRequest]
    /\ run = [r \in Runs |-> IdleRun]
    /\ res = [r \in Runs |-> NoResponse]
    /\ net = [r \in Runs |-> IdleNet]
    /\ snd = IdleSenders
    /\ gbm = IdleGbm
    /\ panel = IdlePanel
    /\ gui = IdleGui
    /\ hd = IdleHd
    /\ batch = IdleBatch

SendStep(r) ==
    \/ SendBatch(r)
    \/ SendFeeData(r)
    \/ SendNonce(r)
    \/ SendEstimate(r)
    \/ SendTransaction(r)
    \/ SendWait(r)
    \/ SendWaitForTransaction(r)
    \/ SendBackoff(r)
    \/ SendRefetch(r)
    \/ SendRetryTransaction(r)
    \/ SendRetryWait(r)
    \/ SendDelay(r)

ReclaimStep(r) ==
    \/ ReclaimBatch(r)
    \/ ReclaimFeeData(r)
    \/ ReclaimNonce(r)
    \/ ReclaimBalance(r)
    \/ ReclaimEstimate(r)
    \/ ReclaimFinalEstimate(r)
    \/ ReclaimTransaction(r)
    \/ ReclaimWait(r)
    \/ ReclaimDelay(r)

Next == \E r \in Runs : SendStep(r) \/ ReclaimStep(r)

Spec == Init /\ [][Next]_vars

\* The server with one send request that passes the pre-flight checks, every
\* call it issues and every timer it sets eventually coming back.
AcceptedSendPayloads ==
    { p \in SendPayloads :
        /\ p.rpcUrl # "" /\ p.fundingSecret = "0xKEY" /\ p.amountEth # ""
        /\ NumberOrZero(p.delayMs) # NaN }

InitSend ==
    /\ \E p \in AcceptedSendPayloads :
          req = [r \in Runs |-> IF r = 1 THEN [url |-> "/api/send-batch", payload |-> p]
                                ELSE NoRequest]
    /\ run = [r \in Runs |-> IdleRun]
    /\ res = [r \in Runs |-> NoResponse]
    /\ net = [r \in Runs |-> IdleNet]
    /\ snd = IdleSenders
    /\ gbm = IdleGbm
    /\ panel = IdlePanel
    /\ gui = IdleGui
    /\ hd = IdleHd
    /\ batch = IdleBatch

NextSend == \E r \in Runs : SendStep(r)

SpecSend == InitSend /\ [][NextSend]_vars /\ WF_vars(NextSend)

\* The server with two send requests that carry the same funding secret and
\* overlap in time: the handler of one runs whenever the other is suspended.
ConcPayload(recipients, waitConfirm, delayMs) ==
    [ rpcUrl |-> "http://rpc",
      recipients |-> [isArray |-> TRUE, items |-> recipients],
      amountEth |-> "0.0001",
      delayMs |-> delayMs,
      waitConfirm |-> waitConfirm,
      fundingSecret |-> "0xKEY" ]

InitConc ==
    /\ req = [r \in Runs |->
                [url |-> "/api/send-batch",
                 payload |-> IF r = 1
                             THEN ConcPayload(<<"address", "address">>, TRUE, "3000")
                             ELSE ConcPayload(<<"address">>, FALSE, "absent")]]
    /\ run = [r \in Runs |-> IdleRun]
    /\ res = [r \in Runs |-> NoResponse]
    /\ net = [r \in Runs |-> IdleNet]
    /\ snd = IdleSenders
    /\ gbm = IdleGbm
    /\ panel = IdlePanel
    /\ gui = IdleGui
    /\ hd = IdleHd
    /\ batch = IdleBatch

NextConc == \E r \in Runs : SendStep(r)

SpecConc == InitConc /\ [][NextConc]_vars

\* ------------------------------------------------------------------ claims
Sending(r) == run[r].handler = "send"

\* The items of r's batch: its recipients or its entries.
ItemCount(r) ==
    IF run[r].handler = "send" THEN Len(run[r].recipients) ELSE Len(run[r].entries)

\* The positions of the log lines that label item k, and of those of a kind.
LinesOf(r, k) == {j \in DOMAIN run[r].logs : run[r].logs[j].item = k}

HasLine(r, k, kind) == \E j \in LinesOf(r, k) : run[r].logs[j].kind = kind

\* The positions of r's sendTransaction calls for item k.
TxsOf(r, k) == {j \in DOMAIN net[r].txs : net[r].txs[j].item = k}

\* C1 (as claimed): once handleSendBatch is in its loop, no failure of a single
\* recipient, a malformed entry included, makes it throw; when it returns,
\* every recipient has been attempted and has its log line.
C1_RecipientFailureNeverAborts ==
    \A r \in Runs :
        Sending(r) /\ net[r].looping =>
            /\ run[r].pc # "thrown"
            /\ run[r].pc = "done" => \A k \in 1..ItemCount(r) : LinesOf(r, k) # {}

\* C2: a first submission that failed with a stale-nonce error is followed by
\* the re-fetch of the pending nonce and by at most one retry, which is the
\* next submission and carries the re-fetched nonce; a retry that failed, or a
\* re-fetch that failed, leaves a failure line for the recipient and no
\* further submission for it.
C2_StaleNonceRetriedOnce ==
    \A r \in Runs : Sending(r) =>
        \A j \in DOMAIN net[r].txs :
            LET t == net[r].txs[j]
                later == {m \in TxsOf(r, t.item) : m > j}
            IN  (~t.retry /\ t.result = "stale") =>
                    /\ Cardinality(later) <= 1
                    /\ \A m \in later :
                          /\ m = j + 1
                          /\ net[r].txs[m].retry
                          /\ net[r].txs[m].nonce = net[r].txs[m].fetched
                          /\ net[r].txs[m].result = "error" => HasLine(r, t.item, "failed")
                    /\ later = {} =>
                          \/ /\ run[r].pc = "retryGetTransactionCount"
                             /\ run[r].call.op = "getTransactionCount"
                             /\ run[r].i + 1 = t.item
                          \/ HasLine(r, t.item, "failed")

\* C2's case: a retry carried a re-fetched nonce that differs from the stale
\* one and failed, and the batch has returned.
C2_Witness ==
    \E r \in Runs : \E j \in DOMAIN net[r].txs :
        /\ run[r].pc = "done"
        /\ j > 1
        /\ net[r].txs[j].retry /\ net[r].txs[j].result = "error"
        /\ net[r].txs[j].nonce # net[r].txs[j - 1].nonce
        /\ net[r].txs[j - 1].result = "stale"

\* C3 (as claimed): the backoff before an in-flight-limit retry lasts at least
\* 2000 ms and is taken only when nothing was submitted yet; otherwise the wait
\* is for the last submitted hash; the re-fetch and the retry come only after
\* one of the two.
C3_InFlightBackoffThenRetry ==
    \A r \in Runs : Sending(r) =>
        /\ run[r].pc = "backoff" =>
              run[r].call.ms >= MIN_BACKOFF_MS /\ run[r].lastSubmittedHash = 0
        /\ run[r].pc = "waitForTransaction" =>
              run[r].call.hash = run[r].lastSubmittedHash /\ run[r].call.hash # 0
        /\ (run[r].pc \in {"retryGetTransactionCount", "retrySendTransaction"}
            /\ InFlightLimit(net[r].caught)) => net[r].waited # "no"

\* C4: while every submission of the batch has succeeded at its first attempt,
\* the j-th submission is for recipient j and carries the nonce the batch
\* fetched before the first submission plus j - 1.
C4_NonceMonotonic ==
    \A r \in Runs : Sending(r) =>
        ((\A j \in DOMAIN net[r].txs :
              ~net[r].txs[j].retry /\ net[r].txs[j].result \in {"ok", "pending"})
         => \A j \in DOMAIN net[r].txs :
              /\ net[r].txs[j].item = j
              /\ net[r].txs[j].nonce = net[r].startNonce + (j - 1))

C4_Witness ==
    \E r \in Runs :
        /\ Sending(r) /\ run[r].pc = "done"
        /\ Len(net[r].txs) >= 2
        /\ \A j \in DOMAIN net[r].txs :
              ~net[r].txs[j].retry /\ net[r].txs[j].result = "ok"

\* The lines of r's log that report a submission, in the log's order.
IsSubmission(line) == line.kind \in {"submitted", "retried"}

Submissions(r) == SelectSeq(run[r].logs, IsSubmission)

\* The only call the network failed in r's batch is the first submission for
\* one recipient, with a stale-nonce error.
OneStaleNonce(r) ==
    /\ net[r].faults = 1
    /\ \E j \in DOMAIN net[r].txs :
          /\ ~net[r].txs[j].retry /\ net[r].txs[j].result = "stale"
          /\ \A m \in DOMAIN net[r].txs : m # j => net[r].txs[m].result = "ok"

\* C5: a returned batch whose only failure was the first submission of one
\* recipient, with a stale-nonce error, made exactly one retry, with the
\* re-fetched nonce, and its log reports one submission per recipient, in
\* recipient order, the retried recipient's as a retry.
C5_OneStaleNonceOneRetry ==
    \A r \in Runs :
        (Sending(r) /\ run[r].pc = "done" /\ OneStaleNonce(r)) =>
            LET retries == {j \in DOMAIN net[r].txs : net[r].txs[j].retry}
                subs == Submissions(r)
            IN  /\ Cardinality(retries) = 1
                /\ \A j \in retries :
                      /\ net[r].txs[j].nonce = net[r].txs[j].fetched
                      /\ net[r].txs[j - 1].item = net[r].txs[j].item
                /\ Len(subs) = ItemCount(r)
                /\ \A k \in 1..Len(subs) :
                      /\ subs[k].item = k
                      /\ subs[k].kind = "retried" <=>
                            \E j \in retries : net[r].txs[j].item = k

C5_Witness ==
    \E r \in Runs :
        /\ Sending(r) /\ run[r].pc = "done" /\ OneStaleNonce(r)
        /\ ItemCount(r) >= 2
        /\ \E j \in DOMAIN net[r].txs : net[r].txs[j].retry /\ net[r].txs[j].item = 1

\* The kinds a recipient's last line may have once the recipient is done with.
Settled(r, k) ==
    /\ LinesOf(r, k) # {}
    /\ LET last == CHOOSE j \in LinesOf(r, k) : \A m \in LinesOf(r, k) : m <= j
       IN  run[r].logs[last].kind \in
              (IF run[r].waitConfirm THEN {"confirmed", "failed"}
               ELSE {"submitted", "retried", "failed"})

\* C6: recipients are handled one at a time and in order: while recipient
\* i + 1 is being handled every earlier recipient is done with (its submission,
\* its retry and, with waitConfirm, its confirmation wait have ended), the log
\* and the submissions follow the recipients' order, and no submission is
\* issued while another of the batch is pending.
C6_StrictlySequential ==
    \A r \in Runs : Sending(r) =>
        /\ \A k \in 1..run[r].i : Settled(r, k)
        /\ \A j \in DOMAIN run[r].logs : run[r].logs[j].item <= run[r].i + 1
        /\ \A j, m \in DOMAIN run[r].logs :
              j < m => run[r].logs[j].item <= run[r].logs[m].item
        /\ \A j, m \in DOMAIN net[r].txs :
              j < m => /\ net[r].txs[j].item <= net[r].txs[m].item
                       /\ net[r].txs[j].result # "pending"

C6_Witness ==
    \E r \in Runs :
        /\ Sending(r) /\ run[r].waitConfirm
        /\ run[r].i = 1 /\ run[r].pc = "sendTransaction"
        /\ HasLine(r, 1, "retried") /\ HasLine(r, 1, "confirmed")

\* C7 (as claimed): two requests with the same funding key never have a
\* submission in flight at the same time and never issue the same nonce.
C7_OneSubmitterPerKey ==
    \A r1, r2 \in Runs :
        (r1 # r2 /\ Sending(r1) /\ Sending(r2) /\ run[r1].wallet = run[r2].wallet) =>
            /\ ~(run[r1].call.op = "sendTransaction" /\ run[r2].call.op = "sendTransaction")
            /\ \A j \in DOMAIN net[r1].txs : \A m \in DOMAIN net[r2].txs :
                  net[r1].txs[j].nonce # net[r2].txs[m].nonce

\* C8 (as claimed): the returned log holds exactly one line per item.
C8_ExactlyOneLinePerItem ==
    \A r \in Runs :
        run[r].pc = "done" => \A k \in 1..ItemCount(r) : Cardinality(LinesOf(r, k)) = 1

\* The recipient met an in-flight-limit error.
Waited(r, k) == HasLine(r, k, "waiting")

\* C8 (amended): the returned log holds at least one line per item; exactly
\* one when waitConfirm is off and the item met no in-flight-limit error; never
\* more than 4 for a recipient or 2 for a reclaim account; the extra lines are
\* the confirmation line (or the failure of the wait) and the in-flight-limit
\* notice.
C8_LinesPerItem ==
    \A r \in Runs :
        run[r].pc = "done" =>
            \A k \in 1..ItemCount(r) :
                LET n == Cardinality(LinesOf(r, k))
                IN  /\ n >= 1
                    /\ (~run[r].waitConfirm /\ ~Waited(r, k)) => n = 1
                    /\ run[r].handler = "send" => n <= 4
                    /\ run[r].handler = "reclaim" => n <= 2 /\ ~Waited(r, k)
                    /\ ~run[r].waitConfirm => n <= 2

C8_Witness ==
    \E r \in Runs :
        /\ run[r].pc = "done" /\ Sending(r)
        /\ \E k \in 1..ItemCount(r) : Cardinality(LinesOf(r, k)) = 4
        /\ \E k \in 1..ItemCount(r) : Cardinality(LinesOf(r, k)) = 1

\* C9: a request that lacks the RPC URL, the funding secret or the recipients
\* (for a reclaim: the entries, the RPC URL or the reclaim address) is answered
\* with an error before any network call: no call issued, no submission, no log.
C9_PreflightAbortsBeforeNetwork ==
    \A r \in Runs :
        net[r].missing =>
            /\ run[r].pc = "thrown" /\ res[r].status = 500
            /\ net[r].rpc = 0 /\ net[r].txs = <<>> /\ run[r].call = NoCall
            /\ run[r].logs = <<>> /\ res[r].logs = <<>>

C9_Witness ==
    \E r \in Runs : net[r].missing /\ run[r].thrown = "rpcUrl is required"

\* C10 (as claimed): a send request whose amountEth or funding secret does not
\* parse issues no network call.
C10_MalformedRejectedBeforeNetwork ==
    \A r \in Runs :
        net[r].malformed \cap {"amountEth", "fundingSecret"} # {} => net[r].rpc = 0

\* C11 (as claimed): a call the RPC endpoint fails never makes handleSendBatch
\* or handleReclaimBatch throw; the batch returns, and every item one of whose
\* submissions failed for good has its failure line in the returned log.
C11_NetworkErrorPerItem ==
    \A r \in Runs :
        /\ run[r].pc = "thrown" =>
              run[r].thrown \notin {"getFeeData", "getTransactionCount"}
        /\ run[r].pc = "done" =>
              \A j \in DOMAIN net[r].txs :
                  net[r].txs[j].result = "error" =>
                      /\ HasLine(r, net[r].txs[j].item, "failed")
                      /\ res[r].status = 200 /\ res[r].logs = run[r].logs

Reclaiming(r) == run[r].handler = "reclaim"

\* C12: when handleReclaimBatch has compared an entry's balance with the reserve
\* plus the gas cost (gas limit x maxFeePerGas; after the probe estimate and after
\* the second estimate) and balance <= reserve + gasCost, no transaction is
\* submitted for the entry, the entry is logged as skipped and not as failed, and
\* the batch has moved on to the next entry; otherwise the entry goes on to its
\* next step.  A submission carries balance - reserve - gasCost, which is
\* positive, and an entry logged as skipped never has a submission.
C12_ReclaimSkipLaw ==
    \A r \in Runs : Reclaiming(r) =>
        LET q == net[r].quote
        IN  /\ q.item # 0 =>
                  IF q.balance <= q.reserve + q.cost
                  THEN /\ HasLine(r, q.item, "skipped")
                       /\ ~HasLine(r, q.item, "failed")
                       /\ TxsOf(r, q.item) = {}
                       /\ run[r].call.op # "sendTransaction"
                       /\ run[r].i + 1 > q.item
                  ELSE /\ run[r].pc \in {"reclaimFinalEstimateGas", "reclaimSendTransaction"}
                       /\ run[r].i + 1 = q.item
                       /\ LinesOf(r, q.item) = {}
            /\ run[r].pc = "reclaimSendTransaction" =>
                  /\ run[r].call.value > 0
                  /\ run[r].call.value =
                        run[r].balance - run[r].reserveWei
                          - run[r].call.gasLimit * run[r].maxFeePerGas
            /\ \A k \in 1..ItemCount(r) :
                  HasLine(r, k, "skipped") =>
                      TxsOf(r, k) = {} /\ Cardinality(LinesOf(r, k)) = 1

\* C12's cases: an entry skipped at the second estimate with the next entry in
\* progress, and an entry skipped whose balance equals reserve plus gas cost.
C12_Witness ==
    \E r \in Runs :
        /\ Reclaiming(r)
        /\ net[r].quote.item = 1
        /\ net[r].quote.balance = net[r].quote.reserve + net[r].quote.cost
        /\ net[r].quote.balance > 0
        /\ HasLine(r, 1, "skipped")
        /\ run[r].pc = "reclaimGetTransactionCount" /\ run[r].i = 1

\* C13 (as claimed): a reclaim submission that failed with a stale-nonce or an
\* in-flight-limit error is followed by the backoff (at least 2000 ms when
\* nothing was submitted yet), the re-fetch of the entry's pending nonce and one
\* retry; only the retry's failure is logged as the entry's failure.
C13_ReclaimRetriesLikeBroadcaster ==
    \A r \in Runs : Reclaiming(r) =>
        \A j \in DOMAIN net[r].txs :
            LET t == net[r].txs[j]
                later == {m \in TxsOf(r, t.item) : m > j}
            IN  (~t.retry /\ t.result \in {"stale", "in-flight"}) =>
                    /\ Cardinality(later) <= 1
                    /\ \A m \in later :
                          net[r].txs[m].retry /\ net[r].txs[m].nonce = net[r].txs[m].fetched
                    /\ later = {} =>
                          /\ run[r].i + 1 = t.item
                          /\ run[r].call.op \in {"delay", "waitForTransaction",
                                                 "getTransactionCount"}
                          /\ run[r].call.op = "delay" => run[r].call.ms >= MIN_BACKOFF_MS
                          /\ ~HasLine(r, t.item, "failed")

\* C14 (as claimed): with an inter-account delay set, handleReclaimBatch moves
\* from an entry to the next one only when the delay timer fires, whatever the
\* entry's outcome was (submitted, no private key, insufficient balance,
\* failed).
C14_DelayAfterEveryAccount ==
    [][\A r \in Runs :
          (/\ Reclaiming(r)
           /\ run[r].delayMs > 0
           /\ run'[r].i = run[r].i + 1
           /\ run'[r].i < Len(run[r].entries))
          => /\ run[r].pc = "reclaimDelay"
             /\ run[r].call.ms = run[r].delayMs]_vars

EnvelopeBytes == Bytes(gui.module, gui.inputEncryptedData)

DecodedLength == IF EnvelopeBytes = <<-1>> THEN 0 ELSE Len(EnvelopeBytes)

Decrypted == gui.outcome # NoResult

\* C16: encryptMnemonic accepts every valid mnemonic with a non-empty password;
\* its envelope holds the salt at offset 0, the iv at offset 16 and the
\* ciphertext after them, which is where decryptMnemonic of the same module
\* reads them; decryptMnemonic of the untouched envelope with the same password
\* returns the mnemonic, whatever salt and iv were drawn.
C16_RoundTrip ==
    /\ (gui.pc \in {"sealed", "rejected"}
        /\ validateMnemonic(gui.mnemonic) /\ gui.password # <<>>) => gui.pc = "sealed"
    /\ gui.pc = "sealed" =>
          LET data == Bytes(gui.module, gui.envelope.value)
              header == HeaderLength(gui.module)
          IN  /\ subarray(data, 0, 16) = gui.salt
              /\ subarray(data, 16, header) = gui.iv
              /\ Len(data) = header + Len(utf8Encode(gui.mnemonic))
                               + (IF gui.module = "cryptoUtilsGUI" THEN 16 ELSE 0)
    /\ (Decrypted /\ gui.tamper = "none" /\ gui.attempt = gui.password) =>
          gui.outcome = Returned(gui.mnemonic)

\* C16's case: the GCM module has returned a mnemonic of six words from the
\* envelope it made.
C16_Witness ==
    /\ Decrypted /\ gui.tamper = "none" /\ gui.attempt = gui.password
    /\ gui.module = "cryptoUtilsGUI"
    /\ gui.outcome.ok /\ Len(gui.outcome.value) = 11

\* What the cipher of the module makes of the envelope with the password of
\* the last decryptMnemonic: the text, or <<-1>> when the tag check fails.
Plaintext ==
    LET data == EnvelopeBytes
        header == HeaderLength(gui.module)
        key == pbkdf2(gui.attempt, subarray(data, 0, 16))
        iv == subarray(data, 16, header)
        encrypted == subarray(data, header, Len(data))
    IN  IF gui.module = "cryptoUtils" THEN utf8Decode(aesCtr(key, iv, encrypted))
        ELSE IF gcmDecrypt(key, iv, encrypted) = <<-1>> THEN <<-1>>
        ELSE utf8Decode(gcmDecrypt(key, iv, encrypted))

\* C17: what decryptMnemonic returns passes validateMnemonic; when the tag
\* check fails or the decrypted text is no valid mnemonic it throws and
\* delivers no text; the panel never displays a text that is no mnemonic.
C17_FailsClosed ==
    /\ Decrypted =>
          /\ gui.outcome.ok => validateMnemonic(gui.outcome.value)
          /\ ~gui.outcome.ok => gui.outcome.value = <<>> /\ gui.outcome.error # ""
          /\ (EnvelopeBytes # <<-1>> /\ DecodedLength >= HeaderLength(gui.module)
              /\ gui.attempt # <<>>) =>
                (gui.outcome.ok <=> (Plaintext # <<-1>> /\ validateMnemonic(Plaintext)))
    /\ gui.decryptResult # <<>> => validateMnemonic(gui.decryptResult)

\* C17's case: the CTR module has decrypted, with the right password, an
\* envelope one byte of whose ciphertext was changed, and has thrown.
C17_Witness ==
    /\ Decrypted /\ gui.module = "cryptoUtils"
    /\ gui.tamper = "flipped" /\ gui.attempt = gui.password
    /\ subarray(EnvelopeBytes, 0, 32) = gui.salt \o gui.iv
    /\ ~gui.outcome.ok /\ ~validateMnemonic(Plaintext)

\* The error decryptMnemonic throws for the untouched envelope and a wrong
\* password.
WrongPasswordError ==
    LET wrong == CHOOSE p \in Passwords : p # <<>> /\ p # gui.password
    IN  decryptMnemonic(gui.module, gui.envelope.value, wrong).error

\* C18 (as claimed): the error decryptMnemonic throws for a corrupted or
\* truncated envelope is the error it throws for a wrong password.
C18_WrongPasswordLikeCorruption ==
    (/\ Decrypted /\ ~gui.outcome.ok
     /\ gui.attempt # <<>>
     /\ gui.tamper \in {"truncated", "flipped", "cut"}) =>
        gui.outcome.error = WrongPasswordError

\* The messages of the errors decryptMnemonic throws: constant texts.
DecryptErrors ==
    { "decrypt failed: " \o m :
        m \in { "data and password must not be empty", "data format error",
                "result is not a valid mnemonic, wrong password or corrupted data",
                "result is not a valid mnemonic, wrong password",
                "InvalidCharacterError", "OperationError" } }

\* C19: decryptMnemonic with a wrong password throws, and what it throws is one
\* of its constant messages and carries no decrypted text; when
\* EncryptionPanel.handleDecrypt has failed the displayed result is empty and
\* the decrypting flag is off.
C19_WrongPasswordLeaksNothing ==
    /\ (Decrypted /\ gui.tamper = "none"
        /\ gui.attempt # <<>> /\ gui.attempt # gui.password) =>
          /\ ~gui.outcome.ok
          /\ gui.outcome.value = <<>>
          /\ gui.outcome.error \in DecryptErrors
    /\ (gui.handler = "idle" /\ gui.last = "failed") =>
          gui.decryptResult = <<>> /\ ~gui.decrypting
    /\ gui.decrypting <=> gui.handler = "decryptMnemonic"

\* C19's case: the panel displayed the mnemonic, then handleDecrypt was run
\* with a wrong password on the same envelope and has failed.
C19_Witness ==
    /\ gui.handler = "idle" /\ gui.last = "failed" /\ gui.shown
    /\ gui.tamper = "none"
    /\ gui.attempt # <<>> /\ gui.attempt # gui.password

\* C20: decryptMnemonic throws for every envelope of fewer bytes than salt, iv
\* and one byte of ciphertext (33 in cryptoUtils.js, 29 in cryptoUtilsGUI.js),
\* and validateEncryptedData calls exactly those envelopes invalid.
C20_ShortEnvelopeRejected ==
    /\ (Decrypted /\ DecodedLength < HeaderLength(gui.module) + 1) => ~gui.outcome.ok
    /\ gui.validation # NoValidation =>
          (gui.validation.valid <=> DecodedLength >= 33)

\* C20's case: an envelope of salt and iv alone, which decryptMnemonic has
\* rejected with the right password and validateEncryptedData called invalid.
C20_Witness ==
    /\ Decrypted /\ gui.attempt = gui.password /\ ~gui.outcome.ok
    /\ gui.module = "cryptoUtils" /\ DecodedLength = 32
    /\ gui.validation # NoValidation /\ ~gui.validation.valid


\* C21: for every supported word count w, generateMnemonic(w) draws w * 32 / 3
\* bits of entropy and returns exactly w words that pass validateMnemonic, with
\* w * 11 = bits + bits / 32; for every other input it fails with the
\* unsupported-word-count error and returns no mnemonic.
C21_GenerateMnemonicLaw ==
    hd.pc = "generated" =>
        IF hd.wordCount \in SupportedWordCounts
        THEN LET w == WordCountOf(hd.wordCount)
                 bits == 8 * Len(hd.entropy)
             IN  /\ bits * 3 = w * 32
                 /\ hd.generated.ok
                 /\ Len(hd.generated.value) = w
                 /\ bip39ValidateMnemonic(hd.generated.value)
                 /\ w * 11 = bits + (bits \div 32)
        ELSE /\ ~hd.generated.ok
             /\ hd.generated.value = <<>>
             /\ hd.generated.error =
                    "mnemonic generation failed: unsupported mnemonic length: " \o hd.wordCount


IsPrefix(a, b) == Len(a) <= Len(b) /\ SubSeq(b, 1, Len(a)) = a

\* C23: once handleStop has been invoked, processBatch starts no new
\* iteration, and every result completed before the stop is retained: it is in
\* the array processBatch returns and in the results state.
C23_StopStartsNothingKeepsResults ==
    \A k \in Starts :
        LET p == batch.proc[k]
        IN  p.stopped =>
                /\ Len(p.started) = p.startedAtStop
                /\ IsPrefix(p.atStop, p.batchResults)
                /\ p.pc \in {"export", "done"} => IsPrefix(p.atStop, p.returned)
                /\ IsPrefix(p.atStop, batch.results)


\* C24: while the pause flag is set processBatch starts no iteration and polls
\* the flag every 100 ms, a poll leaves the index alone, and the iterations
\* that start are 0, 1, 2, ... in this order: no item is skipped or started
\* twice.
C24_PauseKeepsIndex ==
    [][ \A k \in Starts :
          LET p == batch.proc[k]
              q == batch'.proc[k]
          IN  /\ batch.pausedRef /\ batch.processingRef => q.started = p.started
              /\ p.pc = "poll" => p.timer = POLL_MS /\ p.i = Len(p.started)
              /\ p.pc = "poll" /\ q.started = p.started => q.i = p.i
              /\ q.started # p.started => q.started = Append(p.started, Len(p.started))
      ]_vars

\* A processBatch that polled during a pause and went on to its next item
\* after the resume.
C24_Witness ==
    \E k \in Starts :
        /\ batch.proc[k].polled
        /\ ~batch.proc[k].stopped
        /\ batch.proc[k].started = <<0, 1>>
        /\ batch.proc[k].pc = "generate"


\* C25: at most one transaction is successfully submitted per recipient of a
\* send batch, also when the wait for the confirmation of a successful
\* submission fails, with an error of whatever class.
C25_OneSubmissionPerRecipient ==
    \A r \in Runs : Sending(r) =>
        \A k \in 1..ItemCount(r) :
            Cardinality({j \in TxsOf(r, k) : net[r].txs[j].result = "ok"}) <= 1

\* The sendTransaction call that r awaited in the state a step leaves has
\* come back with a transaction in the state the step reaches.
SubmissionSucceeded(r) ==
    /\ run[r].call.op = "sendTransaction"
    /\ net'[r].txs[Len(net[r].txs)].result = "ok"

\* C26 (as claimed): after its initialisation nextNonce changes only in the
\* step in which a sendTransaction call succeeded.
C26_NonceChangesOnlyAfterSubmission ==
    [][\A r \in Runs :
          (/\ Sending(r)
           /\ run[r].pc # "getTransactionCount"
           /\ run'[r].nextNonce # run[r].nextNonce)
          => SubmissionSucceeded(r)]_vars

\* C26 (amended): nextNonce is incremented by one in the step in which a
\* sendTransaction call (first attempt or retry) succeeded, a submission that
\* fails leaves it as it was, and the only other change is the re-fetch of the
\* retry path, which sets it to the pending count the node reports and submits
\* the retry with it.
C26_NonceCounterChanges ==
    [][\A r \in Runs :
          (Sending(r) /\ run[r].pc # "getTransactionCount") =>
              IF run[r].call.op = "sendTransaction"
              THEN run'[r].nextNonce =
                       run[r].nextNonce + (IF SubmissionSucceeded(r) THEN 1 ELSE 0)
              ELSE IF run[r].pc = "retryGetTransactionCount"
                      /\ run'[r].pc = "retrySendTransaction"
              THEN /\ run'[r].nextNonce = net'[r].txs[Len(net'[r].txs)].fetched
                   /\ run'[r].call.nonce = run'[r].nextNonce
              ELSE run'[r].nextNonce = run[r].nextNonce]_vars

\* A first attempt refused for its stale nonce, and a retry whose re-fetched
\* nonce is another one: the counter changed without a successful submission.
C26_Witness ==
    \E r \in Runs :
        /\ Sending(r)
        /\ \E j \in DOMAIN net[r].txs :
              /\ j > 1
              /\ net[r].txs[j].retry
              /\ net[r].txs[j - 1].result = "stale"
              /\ net[r].txs[j].fetched = net[r].txs[j].nonce
              /\ net[r].txs[j].nonce # net[r].txs[j - 1].nonce

\* C27: every transaction handleSendBatch submits, first attempt or retry,
\* carries value = amountWei, gasLimit = 21000, the batch's maxFeePerGas and
\* maxPriorityFeePerGas, and nonce = the local counter.
C27_TransactionFields ==
    \A r \in Runs : (Sending(r) /\ run[r].call.op = "sendTransaction") =>
        /\ run[r].call.value = run[r].value
        /\ run[r].call.gasLimit = 21000
        /\ run[r].call.maxFeePerGas = run[r].maxFeePerGas
        /\ run[r].call.maxPriorityFeePerGas = run[r].maxPriorityFeePerGas
        /\ run[r].call.nonce = run[r].nextNonce

\* a ?? b
Coalesce(a, b) == IF a = null THEN b ELSE a

\* C28: the batch's maxFeePerGas is the network's maxFeePerGas if that is not
\* null, else the network's gasPrice if that is not null, else the fallback;
\* its maxPriorityFeePerGas is the network's if that is not null, else the
\* fallback; for null, zero and positive fee values.
C28_FeeOptionsNullOnly ==
    \A r \in Runs : (net[r].feeData.resolved /\ run[r].pc # "thrown") =>
        /\ run[r].maxFeePerGas =
              Coalesce(net[r].feeData.maxFeePerGas,
                       Coalesce(net[r].feeData.gasPrice, FALLBACK_PRIORITY_FEE_GWEI))
        /\ run[r].maxPriorityFeePerGas =
              Coalesce(net[r].feeData.maxPriorityFeePerGas, FALLBACK_PRIORITY_FEE_GWEI)

\* C29: with a delay set, handleSendBatch moves from a recipient to the next
\* one only when the delay timer of delayMs fires, whatever the recipient's
\* outcome was, and no delay is awaited after the last recipient.
C29_DelayAfterEveryRecipient ==
    [][\A r \in Runs : Sending(r) =>
          /\ (/\ run[r].delayMs # NaN
              /\ run[r].delayMs > 0
              /\ run'[r].i = run[r].i + 1
              /\ run'[r].i < Len(run[r].recipients))
             => /\ run[r].pc = "delay"
                /\ run[r].call.ms = run[r].delayMs
          /\ run[r].pc = "delay" =>
                /\ run[r].i < Len(run[r].recipients) - 1
                /\ run'[r].pc # "delay" => run'[r].i = run[r].i + 1]_vars

\* The delay of 3000 ms awaited after a first recipient whose submission
\* failed.
C29_Witness ==
    \E r \in Runs :
        /\ Sending(r)
        /\ run[r].pc = "delay"
        /\ run[r].call.ms = 3000
        /\ HasLine(r, 1, "failed")

\* estimate + estimate / 5 for every estimate the node may give.
BufferedEstimates == { e + (e \div 5) : e \in ReclaimEstimates }

C31_ReclaimDebitWithinBalance ==
    \A r \in Runs :
        (Reclaiming(r) /\ run[r].call.op = "sendTransaction") =>
            LET tx == run[r].call
                q == net[r].quote
            IN  /\ q.item = run[r].i + 1
                /\ tx.value > 0
                /\ tx.value + tx.gasLimit * tx.maxFeePerGas + q.reserve = q.balance
                /\ tx.value + tx.gasLimit * tx.maxFeePerGas <= q.balance - q.reserve

\* C31's case: a submission whose second estimate differs from the probe's, with
\* a reserve held back.
C31_Witness ==
    \E r \in Runs :
        /\ Reclaiming(r)
        /\ run[r].pc = "reclaimSendTransaction"
        /\ run[r].call.gasLimit # run[r].estimatedGasLimit
        /\ run[r].reserveWei > 0
        /\ run[r].call.value > 0

\* The sendTransaction calls of r stay within two per recipient.
TwoSendsPerRecipient(r) ==
    /\ \A k \in 1..ItemCount(r) : Cardinality(TxsOf(r, k)) <= 2
    /\ Len(net[r].txs) <= 2 * ItemCount(r)

\* C32 (as claimed): whatever the calls of handleSendBatch come back with, each
\* of them coming back, the handler returns its logs, and it has issued at most
\* two sendTransaction calls per recipient.
C32_TerminatesReturningLogs ==
    /\ [](\A r \in Runs : Sending(r) => TwoSendsPerRecipient(r))
    /\ \A r \in Runs :
          (run[r].pc = "getFeeData") ~> (run[r].pc = "done" /\ res[r].status = 200)

\* C32, what handleSendBatch does guarantee: whatever the calls of handleSendBatch come back with, each of
\* them coming back, the handler terminates, with at most two sendTransaction
\* calls per recipient: it returns its logs, or it throws because getFeeData or
\* the first getTransactionCount was rejected, because amountEth does not parse,
\* or because a recipient is no string.
C32_Terminates ==
    /\ [](\A r \in Runs : Sending(r) =>
            /\ TwoSendsPerRecipient(r)
            /\ run[r].pc = "done" => res[r] = [status |-> 200, logs |-> run[r].logs]
            /\ run[r].pc = "thrown" =>
                  /\ res[r].status = 500
                  /\ run[r].thrown \in {"getFeeData", "getTransactionCount",
                                        "invalid amountEth", "to.slice is not a function"}
                  /\ run[r].thrown = "to.slice is not a function" =>
                        \E k \in 1..ItemCount(r) : ~IsString(run[r].recipients[k])
                  /\ run[r].thrown \in {"getFeeData", "getTransactionCount"} =>
                        net[r].faults = 1 /\ ~net[r].looping)
    /\ \A r \in Runs :
          (run[r].pc = "getFeeData") ~> (run[r].pc \in {"done", "thrown"})

\* C32's case: a returned batch of two recipients with two sendTransaction calls
\* for each of them.
C32_Witness ==
    \E r \in Runs :
        /\ Sending(r)
        /\ run[r].pc = "done"
        /\ res[r].status = 200
        /\ ItemCount(r) = 2
        /\ Len(net[r].txs) = 4
        /\ \A k \in 1..2 : Cardinality(TxsOf(r, k)) = 2

\* An invocation whose processBatch is inside an iteration: it awaits
\* generateMnemonic or encryptMnemonic and will go on to push a result.
Producing(p) == p.pc \in {"generate", "encrypt"}

\* C33: at most one processBatch loop is producing results at a time; a
\* processBatch that was stopped appends no further result, and it overwrites
\* no state of a later run: while a later run is under way and was not stopped
\* itself, the results state holds that run's results and the processing flag
\* and its ref stay set.
C33_OneLoopProduces ==
    /\ Cardinality({k \in Starts : Producing(batch.proc[k])}) <= 1
    /\ \A k \in Starts :
          batch.proc[k].stopped => batch.proc[k].batchResults = batch.proc[k].atStop
    /\ \A k, j \in Starts :
          (k < j /\ batch.proc[k].stopped /\ InBatch(batch.proc[j])
             /\ ~batch.proc[j].stopped) =>
                /\ batch.results = batch.proc[j].batchResults
                /\ batch.processing /\ batch.processingRef

\* handleStart was invoked again after the invocation k.
Restarted(k) == \E j \in Starts : j > k /\ batch.proc[j].pc # "off"

\* The processBatch of invocation k was stopped while it waited in its pause
\* loop.
StoppedInPause(k) == batch.proc[k].stopped /\ batch.proc[k].pausedAtStop

\* C34 (as claimed): a processBatch that is stopped while it waits in the pause
\* loop leaves the loop and returns, with no resume, and what it returns is the
\* results completed before the stop.
C34_StopWhilePausedReturns ==
    /\ \A k \in Starts : StoppedInPause(k) ~> (batch.proc[k].pc = "done")
    /\ [](\A k \in Starts :
            (StoppedInPause(k) /\ batch.proc[k].pc \in {"export", "done"}) =>
                batch.proc[k].returned = batch.proc[k].atStop)

\* C34, what holds as long as handleStart is not invoked again before the
\* stopped processBatch has returned: it leaves the pause loop at the next poll
\* and returns, with no resume (handlePause is not even offered after the
\* stop); it returns the results completed before the stop, and the processing
\* flag and the paused flag, and their refs, are false.
C34_StopWhilePausedReturnsUnlessRestarted ==
    /\ \A k \in Starts :
          StoppedInPause(k) ~> (batch.proc[k].pc = "done" \/ Restarted(k))
    /\ [](\A k \in Starts :
            (StoppedInPause(k) /\ ~Restarted(k)) =>
                /\ ~batch.processing /\ ~batch.processingRef
                /\ ~batch.paused /\ ~batch.pausedRef
                /\ ~ENABLED HandlePause
                /\ batch.proc[k].batchResults = batch.proc[k].atStop
                /\ batch.proc[k].pc \in {"export", "done"} =>
                      batch.proc[k].returned = batch.proc[k].atStop)

\* C34's case: a batch that was paused after its first result, stopped during
\* the pause, and has ended with that result.
C34_Witness ==
    /\ StoppedInPause(1)
    /\ batch.proc[1].pc = "done"
    /\ batch.batchSize > 1
    /\ Len(batch.proc[1].returned) = 1
    /\ batch.proc[1].started = <<0>>
    /\ ~Restarted(1)
    /\ ~batch.processing /\ ~batch.paused

\* The log a sender has produced when it has ended: the sendLogs state of the
\* browser, the logs of the response of a handler (none when it threw).
SenderLogs(k) == IF snd.s[k].pc = "done" THEN snd.s[k].logs ELSE <<>>

SetupFailed ==
    \E a \in snd.answers :
        a.pc \in {"getFeeData", "getTransactionCount"} /\ a.error # NoError

IdsOf(list) == [k \in DOMAIN list |-> list[k].id]

\* s is t with some elements left out.
RECURSIVE IsSubsequence(_, _)
IsSubsequence(s, t) ==
    IF s = <<>> THEN TRUE
    ELSE IF t = <<>> THEN FALSE
    ELSE IF Head(s) = Head(t) THEN IsSubsequence(Tail(s), Tail(t))
    ELSE IsSubsequence(s, Tail(t))

\* C36: when handleDecrypt has run to its end, every input item has exactly
\* one entry, a result or an error message (so results.length + errors.length
\* = encryptedItems.length, and an item after a failing one has its entry
\* too), the results and the errors are each in input order, the state holds
\* them, and decrypting is false.
C36_OneEntryPerItem ==
    gbm.last = "finished" =>
        /\ Len(gbm.results) + Len(gbm.errors) = Len(gbm.encryptedItems)
        /\ \A k \in DOMAIN gbm.encryptedItems :
              Cardinality({j \in DOMAIN gbm.results :
                              gbm.results[j].id = gbm.encryptedItems[k].id})
              + Cardinality({j \in DOMAIN gbm.errors :
                              gbm.errors[j].id = gbm.encryptedItems[k].id}) = 1
        /\ IsSubsequence(IdsOf(gbm.results), IdsOf(gbm.encryptedItems))
        /\ IsSubsequence(IdsOf(gbm.errors), IdsOf(gbm.encryptedItems))
        /\ gbm.decryptedItems = gbm.results
        /\ gbm.decryptErrors = gbm.errors
        /\ ~gbm.decrypting

\* A finished run whose first item failed and whose second item was decrypted
\* after it.
C36_Witness ==
    /\ gbm.last = "finished"
    /\ Len(gbm.encryptedItems) >= 2
    /\ gbm.errors # <<>> /\ gbm.results # <<>>
    /\ gbm.errors[1].id = gbm.encryptedItems[1].id
    /\ gbm.encryptedItems[2].encryptedData # ""
    /\ gbm.results[1].id = gbm.encryptedItems[2].id

\* The input item with an id, and the items decryptMnemonic resolved for with
\* a mnemonic whose address on the default path is not the recorded one.
ItemOf(id) ==
    gbm.encryptedItems[CHOOSE k \in DOMAIN gbm.encryptedItems :
                          gbm.encryptedItems[k].id = id]

Mismatching(d) ==
    /\ d.outcome.ok
    /\ ItemOf(d.id).address # <<>>
    /\ hdWalletAddress(d.outcome.value, DEFAULT_ETH_PATH) # ItemOf(d.id).address

\* C37: when handleDecrypt has run to its end, an item whose decrypted
\* mnemonic derives on the default path an address other than the recorded
\* one is one entry of decryptedItems, with mismatch set, the derived address
\* and private key and the recorded address as sourceAddress; its id is among
\* selectedIds and no entry of decryptErrors is about it.
C37_MismatchIsAWarning ==
    gbm.last = "finished" =>
        \A n \in DOMAIN gbm.delivered :
            LET d == gbm.delivered[n]
                entries == {j \in DOMAIN gbm.decryptedItems :
                               gbm.decryptedItems[j].id = d.id}
            IN  Mismatching(d) =>
                  /\ Cardinality(entries) = 1
                  /\ \A j \in entries :
                        LET entry == gbm.decryptedItems[j]
                        IN  /\ entry.mismatch
                            /\ entry.mnemonic = d.outcome.value
                            /\ entry.address =
                                 hdWalletAddress(d.outcome.value, DEFAULT_ETH_PATH)
                            /\ entry.privateKey =
                                 hdWalletPrivateKey(d.outcome.value, DEFAULT_ETH_PATH)
                            /\ entry.sourceAddress = ItemOf(d.id).address
                  /\ \E j \in DOMAIN gbm.selectedIds : gbm.selectedIds[j] = d.id
                  /\ \A j \in DOMAIN gbm.decryptErrors : gbm.decryptErrors[j].id # d.id

\* A finished run with an item recorded with its address on another path,
\* decrypted to the mnemonic of the CSV.
C37_Witness ==
    /\ gbm.last = "finished"
    /\ \E n \in DOMAIN gbm.delivered :
          /\ Mismatching(gbm.delivered[n])
          /\ gbm.delivered[n].outcome.value = CsvMnemonic
          /\ ItemOf(gbm.delivered[n].id).address =
                hdWalletAddress(CsvMnemonic, <<1044, 1060, 1000, 0, 1>>)

\* ----------------------------------- claims on EncryptionPanel.handleEncrypt

\* C38: handleEncrypt stores all or nothing.  When the encryption of a target
\* failed, encryptedResults is what it was when handleEncrypt began; when
\* none failed, it holds one envelope per target, in the targets' order; and
\* encrypting is true only while handleEncrypt awaits encryptMnemonic, so it
\* is false when the operation has ended, whichever way.
C38_AllOrNothing ==
    /\ panel.last = "failed" => panel.encryptedResults = panel.before
    /\ panel.last = "stored" =>
          /\ panel.encryptedResults = panel.results
          /\ Len(panel.encryptedResults) = Len(panel.targetMnemonics)
          /\ \A k \in DOMAIN panel.encryptedResults :
                panel.encryptedResults[k].originalId = k
    /\ panel.encrypting <=> panel.pc = "encryptMnemonic"
    /\ panel.last \in {"refused", "stored", "failed"} => ~panel.encrypting

\* A run that failed on its second target, after the first had been
\* encrypted, in a panel that held the results of an earlier encryption.
C38_Witness ==
    /\ panel.last = "failed"
    /\ Len(panel.results) = 1
    /\ Len(panel.targetMnemonics) >= 2
    /\ panel.before = EarlierResults
    /\ panel.encryptedResults = EarlierResults
    /\ ~panel.encrypting

====
